---- MODULE Spec2Model ----
(***************************************************************************)
(* A model of the code-to-searchable-knowledge pipeline of DevInsight:     *)
(*   - the in-process vector store        (src/lib/chromadb.js)            *)
(*   - the embedding batch loop           (src/lib/embeddings.js)          *)
(*   - the repository ingestion handler   (src/pages/api/process-repo.js)  *)
(*   - the chat handler                   (src/unnamed/part_013)           *)
(*   - the per-language chunkers          (src/lib/chunker.js)             *)
(* Every asynchronous function is cut at its await points: one action is   *)
(* the synchronous run of code between two suspensions.                    *)
(***************************************************************************)
EXTENDS Integers, Sequences, FiniteSets, TLC

VARIABLES
    vectorStore,  \* global.vectorStore.collections: collection name -> collection
    lastCall,     \* the latest call of the store interface: arguments and outcome
    chroma,       \* the store of the client-and-cache variant (chromadb.js 1-257)
    cosIn,        \* cosineSimilarity: the pair of vectors it is applied to
    cosOut,       \* cosineSimilarity: what both variants and the query make of it
    embedRun,        \* one batchProcessEmbeddings call: its locals and position
    hfLog,        \* the embedding service: the calls it received, in order
    req,          \* the process-repo requests: each one's locals, position, responses
    chat,         \* a chat request: its locals, position, responses
    chunker       \* one chunkCodeFile call: its locals, the chunks so far, its position

vars == <<vectorStore, lastCall, chroma, cosIn, cosOut, embedRun, hfLog, req, chat, chunker>>

\* the variables of each part of the model
storeGroup == <<vectorStore, lastCall, chroma>>
cosGroup == <<cosIn, cosOut>>
embedGroup == <<embedRun, hfLog>>
ingestGroup == <<req, chat>>
chunkGroup == <<chunker>>

----------------------------------------------------------------------------
(* Bounds of the model *)

\* longest collection built through the store interface
MaxRecords == 2
\* largest nResults / topK asked for
MaxK == 2
\* longest chunk sequence handed to one batchProcessEmbeddings call
MaxBatch == 3
\* most files a repository listing returns
MaxListing == 2
\* most chunks chunkCodeFile makes of one fetched file
MaxChunksPerFile == 1
\* the chunks of a file beyond one insert batch
MaxOver == 1
\* most collection objects the client of the cache variant creates
MaxCreated == 2
\* most lines of a file handed to chunkCodeFile
MaxLines == 4
\* largest small maxTokens handed to chunkCodeFile
MaxTokens == 3

----------------------------------------------------------------------------
(* Small helpers *)

Range(s) == {s[i] : i \in DOMAIN s}

Min(a, b) == IF a <= b THEN a ELSE b

RECURSIVE SumTo(_, _)
\* f[1] + ... + f[n]
SumTo(f, n) == IF n = 0 THEN 0 ELSE f[n] + SumTo(f, n - 1)

\* Math.sqrt on the perfect squares the vectors below produce
Sqrt(n) == CHOOSE r \in 0..n : r * r = n

SeqsUpTo(S, n) == UNION {[1..m -> S] : m \in 0..n}

----------------------------------------------------------------------------
(* Vectors and similarity.  A JavaScript value that may be undefined is a  *)
(* record [def, v].  Similarities and distances are exact rationals with   *)
(* denominator Unit: every vector below has an integer norm in {0,1,5},    *)
(* so dot/(normA*normB) is a multiple of 1/25.                             *)

Unit == 5 * 5

Vec(v) == [def |-> TRUE, v |-> v]
Undefined == [def |-> FALSE, v |-> <<>>]

\* embeddings of the model's dimension (2)
Embeddings == {Vec(<<0, 0>>), Vec(<<1, 0>>), Vec(<<-1, 0>>), Vec(<<3, 4>>)}

\* malformed vectors: missing, zero-length, other length
OddVectors == {Undefined, Vec(<<>>), Vec(<<1>>), Vec(<<0>>)}

AnyVectors == Embeddings \cup OddVectors

\* a number, NaN, or a raised TypeError
Num(n) == [k |-> "num", n |-> n]
NaN == [k |-> "NaN", n |-> 0]
Throw == [k |-> "throw", n |-> 0]

\* src/lib/chromadb.js 264-293 (the store in use)
cosineSimilarity(vecA, vecB) ==
    IF ~vecA.def \/ ~vecB.def \/ Len(vecA.v) # Len(vecB.v)
    THEN Num(0)
    ELSE LET n == Len(vecA.v)
             dotProduct == SumTo([i \in 1..n |-> vecA.v[i] * vecB.v[i]], n)
             normA == Sqrt(SumTo([i \in 1..n |-> vecA.v[i] * vecA.v[i]], n))
             normB == Sqrt(SumTo([i \in 1..n |-> vecB.v[i] * vecB.v[i]], n))
         IN  IF normA = 0 \/ normB = 0
             THEN Num(0)
             ELSE Num((dotProduct * Unit) \div (normA * normB))

\* src/lib/chromadb.js 73-92 (the in-memory fallback): no guard, the loop runs
\* over vecA's indices and reads vecB[i] whatever vecB's length
cosineSimilarityFallback(vecA, vecB) ==
    IF ~vecA.def THEN Throw                       \* vecA.length of undefined
    ELSE IF Len(vecA.v) > 0 /\ ~vecB.def THEN Throw   \* vecB[0] of undefined
    ELSE LET n == Len(vecA.v)
             short == vecB.def /\ Len(vecB.v) < n     \* vecB[i] undefined: NaN
             dotProduct == SumTo([i \in 1..n |-> vecA.v[i] * vecB.v[i]], n)
             normA == Sqrt(SumTo([i \in 1..n |-> vecA.v[i] * vecA.v[i]], n))
             normB == Sqrt(SumTo([i \in 1..n |-> vecB.v[i] * vecB.v[i]], n))
         IN  IF normA = 0 THEN Num(0)
             ELSE IF short THEN NaN
             ELSE IF normB = 0 THEN Num(0)
             ELSE Num((dotProduct * Unit) \div (normA * normB))

----------------------------------------------------------------------------
(* Repository identifiers and collection names.  A string is the sequence  *)
(* of its characters, so that the sanitising replace is computed.          *)

\* "o/a-b", "o/a_b", "o/c"
RepoIds == {<<"o", "/", "a", "-", "b">>, <<"o", "/", "a", "_", "b">>,
            <<"o", "/", "c">>}

\* a repoId that is no string (undefined): repoId.replace raises a TypeError
NoRepoId == <<"undefined">>

WordChars == {"a", "b", "c", "d", "e", "f", "g", "h", "i", "j", "k", "l", "m",
              "n", "o", "p", "q", "r", "s", "t", "u", "v", "w", "x", "y", "z",
              "A", "B", "C", "D", "E", "F", "G", "H", "I", "J", "K", "L", "M",
              "N", "O", "P", "Q", "R", "S", "T", "U", "V", "W", "X", "Y", "Z",
              "0", "1", "2", "3", "4", "5", "6", "7", "8", "9", "_"}

\* `repo_${repoId.replace(/[^a-zA-Z0-9_]/g, '_')}`
collectionName(repoId) ==
    <<"r", "e", "p", "o", "_">> \o
    [i \in DOMAIN repoId |-> IF repoId[i] \in WordChars THEN repoId[i] ELSE "_"]

Names == {collectionName(id) : id \in RepoIds}

----------------------------------------------------------------------------
(* The store: global.vectorStore.collections, a map from collection name   *)
(* to collection object.  A key that is not set is [exists |-> FALSE].     *)
(* getCollection, collection.add, collection.query and                     *)
(* deleteRepositoryData contain no I/O: each runs to completion before     *)
(* any other request's callback, so a collection object is never held      *)
(* across steps.                                                           *)

Absent == [exists |-> FALSE, data |-> <<>>]

EmptyStore == [n \in Names |-> Absent]

\* a getCollection that sets up a new collection object at every call
resetCollection(vs, repoId) ==
    IF repoId = NoRepoId
    THEN [vs |-> vs, threw |-> TRUE]
    ELSE [vs |-> [vs EXCEPT ![collectionName(repoId)] = [exists |-> TRUE, data |-> <<>>]],
          threw |-> FALSE]

\* src/lib/chromadb.js 300-380: the store after the call, and whether it threw.
\* The handle returned is the object under the collection's name (line 375).
getCollection(vs, repoId) ==
    IF repoId = NoRepoId
    THEN [vs |-> vs, threw |-> TRUE]
    ELSE LET name == collectionName(repoId)
         IN  IF vs[name].exists
             THEN [vs |-> vs, threw |-> FALSE]
             ELSE [vs |-> [vs EXCEPT ![name] = [exists |-> TRUE, data |-> <<>>]],
                   threw |-> FALSE]

\* an add that replaces the record carrying an id it is given again
collectionUpsert(data, items) ==
    LET given(id) == \E j \in DOMAIN items : items[j].id = id
        item(id) == items[CHOOSE j \in DOMAIN items : items[j].id = id]
        held(id) == \E i \in DOMAIN data : data[i].id = id
    IN  [i \in DOMAIN data |-> IF given(data[i].id) THEN item(data[i].id) ELSE data[i]]
        \o SelectSeq(items, LAMBDA x : ~held(x.id))

\* src/lib/chromadb.js 320-331: collection.add pushes every item
collectionAdd(data, items) == data \o items

\* a delete that leaves the collection as it is
keepRepositoryData(vs, repoId) == vs

\* src/lib/chromadb.js 473-489
deleteRepositoryData(vs, repoId) ==
    LET name == collectionName(repoId)
    IN  IF vs[name].exists THEN [vs EXCEPT ![name] = Absent] ELSE vs

BATCH_SIZE == 50

RECURSIVE restartIds(_, _, _)
\* ids that start at chunk_0 in every batch
restartIds(data, chunks, i) ==
    IF i >= Len(chunks) THEN data
    ELSE LET batch == SubSeq(chunks, i + 1, Min(i + BATCH_SIZE, Len(chunks)))
             items == [index \in DOMAIN batch |->
                          [id |-> index - 1,
                           embedding |-> batch[index].embedding,
                           document |-> batch[index].content]]
         IN  restartIds(collectionAdd(data, items), chunks, i + BATCH_SIZE)

RECURSIVE addBatches(_, _, _)
\* src/lib/chromadb.js 396-412: the loop over batches of BATCH_SIZE chunks,
\* from offset i (0-based); ids are chunk_<i + index>
addBatches(data, chunks, i) ==
    IF i >= Len(chunks) THEN data
    ELSE LET batch == SubSeq(chunks, i + 1, Min(i + BATCH_SIZE, Len(chunks)))
             items == [index \in DOMAIN batch |->
                          [id |-> i + (index - 1),
                           embedding |-> batch[index].embedding,
                           document |-> batch[index].content]]
         IN  addBatches(collectionAdd(data, items), chunks, i + BATCH_SIZE)

\* src/lib/chromadb.js 388-420
addChunksToVectorStore(vs, repoId, chunks) ==
    LET got == getCollection(vs, repoId)
        name == collectionName(repoId)
    IN  IF got.threw
        THEN [vs |-> vs, threw |-> TRUE]
        ELSE [vs |-> [got.vs EXCEPT ![name].data = addBatches(@, chunks, 0)],
              threw |-> FALSE]

\* no sort: the results stay in the order of insertion
insertionOrder(s) == s

\* Array.prototype.sort with (a, b) => a.distance - b.distance: stable, each
\* element goes after the elements not greater than it
RECURSIVE sortByDistance(_)
sortByDistance(s) ==
    IF s = <<>> THEN <<>>
    ELSE LET init == sortByDistance(SubSeq(s, 1, Len(s) - 1))
             x == s[Len(s)]
             pos == Cardinality({i \in DOMAIN init : init[i].distance <= x.distance})
         IN  SubSeq(init, 1, pos) \o <<x>> \o SubSeq(init, pos + 1, Len(init))

\* src/lib/chromadb.js 332-372: collection.query
collectionQuery(data, queryEmbedding, nResults) ==
    IF Len(data) = 0 THEN <<>>
    ELSE LET results == [i \in DOMAIN data |->
                 [id |-> data[i].id, document |-> data[i].document,
                  distance |-> Unit - cosineSimilarity(queryEmbedding, data[i].embedding).n]]
             sorted == sortByDistance(results)
         IN  SubSeq(sorted, 1, Min(nResults, Len(sorted)))

\* src/lib/chromadb.js 447-458: distance: results.distances[0][i] || 1.0
formatResults(results) ==
    [i \in DOMAIN results |->
        [content |-> results[i].document,
         distance |-> IF results[i].distance = 0 THEN Unit ELSE results[i].distance]]

Returned(items) == [status |-> "returned", items |-> items]
Thrown == [status |-> "threw", items |-> <<>>]

\* a catch that rethrows, as the catch of addChunksToVectorStore does
querySimilarChunksRethrow == Thrown

\* src/lib/chromadb.js 462-465: the catch of querySimilarChunks returns []
querySimilarChunksCatch == Returned(<<>>)

\* src/lib/chromadb.js 429-466: the store after the call and the outcome
querySimilarChunks(vs, repoId, queryEmbedding, topK) ==
    LET got == getCollection(vs, repoId)
    IN  IF got.threw
        THEN [vs |-> vs, out |-> querySimilarChunksCatch]
        ELSE LET data == got.vs[collectionName(repoId)].data
             IN  IF Len(data) = 0
                 THEN [vs |-> got.vs, out |-> Returned(<<>>)]
                 ELSE [vs |-> got.vs,
                       out |-> Returned(formatResults(
                                   collectionQuery(data, queryEmbedding, topK)))]

\* collection.data.length of repoId's collection (0 when there is none)
recordCount(vs, repoId) ==
    IF repoId = NoRepoId THEN 0 ELSE Len(vs[collectionName(repoId)].data)

----------------------------------------------------------------------------
(* The variant of the store at src/lib/chromadb.js 1-257: a client (the    *)
(* ChromaClient, or the inMemoryStore fallback when the heartbeat fails)   *)
(* and the cache `collections` of handles by repoId.  A collection object  *)
(* is its number in objects, the sequence of the objects created, each     *)
(* with the client that made it and its data; slots maps the clients' keys *)
(* to the object each holds, 0 for none.  The fallback takes the argument object {name: ...} as the  *)
(* property key, which is the string "[object Object]" whatever the name.  *)
(* No call of the fallback does I/O.                                       *)

ObjectKey == <<"[object Object]">>

NoChromaCall == [op |-> "none", repoId |-> NoRepoId, handle |-> 0, threw |-> FALSE]

\* client "pending" is the ChromaClient before its heartbeat has settled
NoChroma ==
    [client |-> "pending",
     slots |-> [k \in Names \cup {ObjectKey} |-> 0],
     objects |-> <<>>,
     collections |-> [r \in RepoIds |-> 0],
     last |-> NoChromaCall]

\* src/lib/chromadb.js 103-107: the heartbeat settles; its rejection swaps
\* the client for the fallback
heartbeatSettled(c, ok) ==
    [c EXCEPT !.client = IF ok THEN "chroma" ELSE "fallback"]

\* src/lib/chromadb.js 6-7, 58-59, 64-65: the key a collection name is held under
clientKey(c, name) == IF c.client = "fallback" THEN ObjectKey ELSE name

\* src/lib/chromadb.js 8-11, 137-139: a collection object as it is created
newObject(c) == [fallback |-> c.client = "fallback", data |-> <<>>]

\* a request of the ChromaClient reaches the server or is rejected (up);
\* the fallback does no I/O
reaches(c, up) == c.client = "fallback" \/ up

\* a getCollection that has the client create a collection at every call
cachedResetCollection(c, repoId, up) ==
    IF repoId = NoRepoId \/ ~reaches(c, up)
    THEN [c |-> c, handle |-> 0, threw |-> TRUE]
    ELSE [c |-> [c EXCEPT !.objects = Append(@, newObject(c)),
                          !.slots[clientKey(c, collectionName(repoId))] = Len(c.objects) + 1,
                          !.collections[repoId] = Len(c.objects) + 1],
          handle |-> Len(c.objects) + 1, threw |-> FALSE]

\* src/lib/chromadb.js 122-157: the store after the call, the handle returned
\* and whether the call threw
cachedGetCollection(c, repoId, up) ==
    IF repoId = NoRepoId
    THEN [c |-> c, handle |-> 0, threw |-> TRUE]
    ELSE LET key == clientKey(c, collectionName(repoId))
             created == Len(c.objects) + 1
         IN  IF c.collections[repoId] # 0
             THEN [c |-> c, handle |-> c.collections[repoId], threw |-> FALSE]
             ELSE IF ~reaches(c, up)
             THEN [c |-> c, handle |-> 0, threw |-> TRUE]
             ELSE IF c.slots[key] # 0
             THEN [c |-> [c EXCEPT !.collections[repoId] = c.slots[key]],
                   handle |-> c.slots[key], threw |-> FALSE]
             ELSE [c |-> [c EXCEPT !.objects = Append(@, newObject(c)),
                                   !.slots[key] = created,
                                   !.collections[repoId] = created],
                   handle |-> created, threw |-> FALSE]

\* the ids a collection's records carry
idsOf(data) == {data[i].id : i \in DOMAIN data}

\* src/lib/chromadb.js 165-197.  The add of a fallback object pushes onto the
\* object its key holds when add is called (12-23) and throws when the key
\* holds none.  The add of a ChromaClient's collection is rejected when the server is not reached
\* (answer "down") or the collection of the handle has been deleted; given
\* an id the collection holds already, a server either rejects the batch
\* (answer "strict") or leaves the records of the ids it holds as they are.
\* With answer "unreached" the getCollection before it is the request that
\* is rejected.
cachedAddChunks(c, repoId, chunks, answer) ==
    LET got == cachedGetCollection(c, repoId, answer # "unreached")
        thrown == [c |-> got.c, handle |-> got.handle, threw |-> TRUE]
        done(target, data) ==
            [c |-> [got.c EXCEPT !.objects[target].data = data],
             handle |-> got.handle, threw |-> FALSE]
    IN  IF got.threw \/ Len(chunks) = 0 THEN got
        ELSE IF got.c.objects[got.handle].fallback
        THEN LET target == got.c.slots[ObjectKey]
             IN  IF target = 0 THEN thrown
                 ELSE done(target, addBatches(got.c.objects[target].data, chunks, 0))
        ELSE LET held == got.c.objects[got.handle].data
                 items == addBatches(<<>>, chunks, 0)
                 fresh == SelectSeq(items, LAMBDA x : x.id \notin idsOf(held))
             IN  IF \/ answer = "down"
                    \/ \A k \in Names : got.c.slots[k] # got.handle
                    \/ answer = "strict" /\ fresh # items
                 THEN thrown
                 ELSE done(got.handle, held \o fresh)

\* src/lib/chromadb.js 234-257: deleteCollection, then the cache entry of
\* repoId.  The ChromaClient rejects when the server is not reached or holds
\* no such collection, which is caught (250-253) before the cache entry is
\* removed; the server drops the records with the collection.
cachedDelete(c, repoId, up) ==
    IF repoId = NoRepoId
    THEN [c |-> c, threw |-> TRUE]
    ELSE LET key == clientKey(c, collectionName(repoId))
         IN  IF c.client = "fallback"
             THEN [c |-> [c EXCEPT !.slots[key] = 0, !.collections[repoId] = 0],
                   threw |-> FALSE]
             ELSE IF ~up \/ c.slots[key] = 0
             THEN [c |-> c, threw |-> FALSE]
             ELSE [c |-> [c EXCEPT !.objects[c.slots[key]].data = <<>>,
                                   !.slots[key] = 0,
                                   !.collections[repoId] = 0],
                   threw |-> FALSE]

----------------------------------------------------------------------------
(* batchProcessEmbeddings (src/lib/embeddings.js 38-72).  A call is the    *)
(* record of its locals: chunks, the loop index i (0-based as in the       *)
(* source), embeddedChunks, and where it is suspended: "call" (the         *)
(* generateEmbedding call of chunks[i] is in flight), "delay" (the 100 ms  *)
(* timer is pending) or "returned".                                        *)

\* what the embedding service answers to one call
ServiceVectors == {Vec(<<1, 0>>), Vec(<<3, 4>>)}
Failure == [ok |-> FALSE, embedding |-> Undefined]
EmbedOutcomes == {Failure} \cup {[ok |-> TRUE, embedding |-> e] : e \in ServiceVectors}

NoBatch == [chunks |-> <<>>, i |-> 0, embeddedChunks |-> <<>>, at |-> "returned"]

\* src/lib/embeddings.js 39-49: up to the first await
startBatch(chunks) ==
    [chunks |-> chunks, i |-> 0, embeddedChunks |-> <<>>,
     at |-> IF Len(chunks) = 0 THEN "returned" ELSE "call"]

\* src/lib/embeddings.js 44, 71: i++, then the next call or the return
nextIteration(b) ==
    [b EXCEPT !.i = b.i + 1,
              !.at = IF b.i + 1 < Len(b.chunks) THEN "call" ELSE "returned"]

\* a failure that ends the loop, as a try around the whole loop would
abortBatch(b) == [b EXCEPT !.at = "returned"]

\* src/lib/embeddings.js 65-68: the catch logs and the loop goes on
\* a chunk kept although its embedding call failed
keepFailed(b) ==
    nextIteration([b EXCEPT !.embeddedChunks =
                       Append(@, [content |-> b.chunks[b.i + 1].content,
                                  embedding |-> Undefined])])

onEmbedFailure(b) == nextIteration(b)

\* src/lib/embeddings.js 51-64: push, then the delay unless i is the last index
onEmbedSuccess(b, embedding) ==
    LET pushed == [b EXCEPT !.embeddedChunks =
                       Append(@, [content |-> b.chunks[b.i + 1].content,
                                  embedding |-> embedding])]
    IN  IF b.i < Len(b.chunks) - 1
        THEN [pushed EXCEPT !.at = "delay"]
        ELSE nextIteration(pushed)

\* the generateEmbedding call of chunks[i] settles
settleCall(b, outcome) ==
    IF outcome.ok THEN onEmbedSuccess(b, outcome.embedding) ELSE onEmbedFailure(b)

\* a timer that starts the call of the chunk before it once more
callAgain(b) == [b EXCEPT !.at = "call"]

\* src/lib/embeddings.js 63: the timer fires
afterDelay(b) == nextIteration(b)

----------------------------------------------------------------------------
(* Text (src/lib/chunker.js).  A line is the sequence of its characters; a *)
(* text built by "+= line + '\n'" is the sequence of its lines, and its    *)
(* string is every line followed by a newline.  A regular expression is a  *)
(* set of alternatives, each a sequence of items: a literal, \s+, \s* or   *)
(* the captured \w+.                                                       *)

IsSpace(ch) == ch \in {" ", "\n", "\t"}

RECURSIVE Text(_)
Text(lines) == IF lines = <<>> THEN <<>> ELSE Head(lines) \o <<"\n">> \o Text(Tail(lines))

\* line.trim() === ''
IsBlank(line) == \A x \in DOMAIN line : IsSpace(line[x])

\* text.trim() is the empty string
IsBlankText(lines) == \A n \in DOMAIN lines : IsBlank(lines[n])

\* line.trim()
trim(line) ==
    IF IsBlank(line) THEN <<>>
    ELSE LET first == CHOOSE x \in DOMAIN line :
                          ~IsSpace(line[x]) /\ \A y \in 1..(x - 1) : IsSpace(line[y])
             last == CHOOSE x \in DOMAIN line :
                         ~IsSpace(line[x]) /\ \A y \in (x + 1)..Len(line) : IsSpace(line[y])
         IN  SubSeq(line, first, last)

startsWith(s, lit) == Len(lit) <= Len(s) /\ SubSeq(s, 1, Len(lit)) = lit

includes(s, lit) == \E p \in 1..(Len(s) - Len(lit) + 1) : SubSeq(s, p, p + Len(lit) - 1) = lit

\* (line.match(/ch/g) || []).length
count(line, ch) == Cardinality({x \in DOMAIN line : line[x] = ch})

Lit(s) == [t |-> "lit", s |-> s]
Ws1 == [t |-> "ws1", s |-> <<>>]
Ws0 == [t |-> "ws0", s |-> <<>>]
Word == [t |-> "word", s |-> <<>>]
\* \w+ outside the capture
Words == [t |-> "words", s |-> <<>>]

kwFunc == <<"f", "u", "n", "c">>
kwType == <<"t", "y", "p", "e">>
kwStruct == <<"s", "t", "r", "u", "c", "t">>
kwUnion == <<"u", "n", "i", "o", "n">>
kwTypedef == <<"t", "y", "p", "e", "d", "e", "f">>
kwTrait == <<"t", "r", "a", "i", "t">>
kwImpl == <<"i", "m", "p", "l">>
kwMod == <<"m", "o", "d">>
kwPub == <<"p", "u", "b">>
kwFn == <<"f", "n">>
kwUse == <<"u", "s", "e", " ">>
kwExternCrate == <<"e", "x", "t", "e", "r", "n", " ", "c", "r", "a", "t", "e">>
kwInclude == <<"#", "i", "n", "c", "l", "u", "d", "e">>
kwDefine == <<"#", "d", "e", "f", "i", "n", "e">>
kwPragma == <<"#", "p", "r", "a", "g", "m", "a">>
kwComment == <<"/", "/">>

\* one whitespace character, a run of characters of a set, a run of
\* characters outside it, and the start of the line
Sp == [t |-> "sp", s |-> <<>>]
In1(chars) == [t |-> "in1", s |-> <<>>, chars |-> chars]
NotIn1(chars) == [t |-> "notin1", s |-> <<>>, chars |-> chars]
Bol == [t |-> "bol", s |-> <<>>]

RECURSIVE MatchFrom(_, _, _, _, _)
\* the captures of the matches of the items k.. of pat at position p of s
MatchFrom(s, p, pat, k, cap) ==
    IF k > Len(pat) THEN {cap}
    ELSE LET e == pat[k]
             runs(C(_), least) ==
                 {q \in (p + least)..(Len(s) + 1) : \A x \in p..(q - 1) : C(s[x])}
             IsWord(ch) == ch \in WordChars
         IN  CASE e.t = "lit" ->
                    IF p + Len(e.s) - 1 <= Len(s) /\ SubSeq(s, p, p + Len(e.s) - 1) = e.s
                    THEN MatchFrom(s, p + Len(e.s), pat, k + 1, cap)
                    ELSE {}
               [] e.t = "ws1" ->
                    UNION {MatchFrom(s, q, pat, k + 1, cap) : q \in runs(IsSpace, 1)}
               [] e.t = "ws0" ->
                    UNION {MatchFrom(s, q, pat, k + 1, cap) : q \in runs(IsSpace, 0)}
               [] e.t = "word" ->
                    UNION {MatchFrom(s, q, pat, k + 1, SubSeq(s, p, q - 1)) :
                               q \in runs(IsWord, 1)}
               [] e.t = "words" ->
                    UNION {MatchFrom(s, q, pat, k + 1, cap) : q \in runs(IsWord, 1)}
               [] e.t = "sp" ->
                    IF p <= Len(s) /\ IsSpace(s[p])
                    THEN MatchFrom(s, p + 1, pat, k + 1, cap)
                    ELSE {}
               [] e.t = "in1" ->
                    LET IsIn(ch) == ch \in e.chars
                    IN  UNION {MatchFrom(s, q, pat, k + 1, cap) : q \in runs(IsIn, 1)}
               [] e.t = "notin1" ->
                    LET IsOut(ch) == ch \notin e.chars
                    IN  UNION {MatchFrom(s, q, pat, k + 1, cap) : q \in runs(IsOut, 1)}
               [] e.t = "bol" ->
                    IF p = 1 THEN MatchFrom(s, p, pat, k + 1, cap) ELSE {}

NoMatch == [matched |-> FALSE, name |-> <<>>]

\* s.match(re): the leftmost match, the capture as long as it can be
match(s, re) ==
    LET capsAt(p) == UNION {MatchFrom(s, p, re[a], 1, <<>>) : a \in DOMAIN re}
        starts == {p \in 1..(Len(s) + 1) : capsAt(p) # {}}
    IN  IF starts = {} THEN NoMatch
        ELSE LET p == CHOOSE x \in starts : \A y \in starts : x <= y
             IN  [matched |-> TRUE,
                  name |-> CHOOSE c \in capsAt(p) : \A d \in capsAt(p) : Len(d) <= Len(c)]

\* s.match(re) of a regular expression whose alternatives, in the order the
\* engine tries them, capture differently: the leftmost match, of the first
\* alternative that matches there
matchFirst(s, re) ==
    LET capsOf(p, a) == MatchFrom(s, p, re[a], 1, <<>>)
        starts == {p \in 1..(Len(s) + 1) : \E a \in DOMAIN re : capsOf(p, a) # {}}
    IN  IF starts = {} THEN NoMatch
        ELSE LET p == CHOOSE x \in starts : \A y \in starts : x <= y
                 a == CHOOSE x \in DOMAIN re :
                          capsOf(p, x) # {} /\ \A y \in 1..(x - 1) : capsOf(p, y) = {}
             IN  [matched |-> TRUE,
                  name |-> CHOOSE c \in capsOf(p, a) : \A d \in capsOf(p, a) : Len(d) <= Len(c)]

\* src/lib/chunker.js 6-8: text.split(/\s+/).length is one more than the
\* number of runs of whitespace in text
estimateTokens(text) ==
    Cardinality({x \in DOMAIN text : IsSpace(text[x]) /\ (x = 1 \/ ~IsSpace(text[x - 1]))}) + 1

\* src/lib/chunker.js 54-74
getLanguageFromExtension(extension) ==
    CASE extension \in {"js", "jsx"} -> "javascript"
      [] extension \in {"ts", "tsx"} -> "typescript"
      [] extension = "py" -> "python"
      [] extension = "java" -> "java"
      [] extension = "go" -> "go"
      [] extension \in {"c", "h"} -> "c"
      [] extension \in {"cpp", "hpp"} -> "cpp"
      [] extension = "rs" -> "rust"
      [] extension = "html" -> "html"
      [] extension = "css" -> "css"
      [] OTHER -> "text"

\* the string of a small number, for `Chunk ${chunkNumber}`
Digit(n) == <<"0", "1", "2", "3", "4", "5", "6", "7", "8", "9">>[n + 1]

\* a call of a chunker: its locals and its position
NoChunker ==
    [lang |-> "text", lines |-> <<>>, maxTokens |-> 0, i |-> 0, currentChunk |-> <<>>,
     currentChunkName |-> <<>>, preamble |-> <<>>, inImportSection |-> FALSE,
     blockDepth |-> 0, inMethod |-> FALSE, inFunction |-> FALSE, inClass |-> FALSE,
     chunkNumber |-> 1,
     chunks |-> <<>>, pc |-> "done"]

\* currentChunkName || byDefault
named(c, byDefault) == IF c.currentChunkName = <<>> THEN byDefault ELSE c.currentChunkName

\* chunks.push({content: preamble + currentChunk, metadata: {..., name}})
push(c, preamble, name) ==
    [c EXCEPT !.chunks = Append(@, [preamble |-> preamble, body |-> c.currentChunk,
                                    name |-> name])]

\* chunk.content
content(chunk) == Text(chunk.preamble) \o Text(chunk.body)

\* src/lib/chunker.js 153-156 (and 426-429): blockDepth += openBraces - closeBraces
trackDepth(c, line) == [c EXCEPT !.blockDepth = @ + count(line, "{") - count(line, "}")]

\* src/lib/chunker.js 827-845: one iteration of the loop of chunkBySize
stepBySize(c) ==
    LET line == c.lines[c.i + 1]
        c1 == [c EXCEPT !.currentChunk = Append(@, line), !.i = c.i + 1]
    IN  IF estimateTokens(Text(c1.currentChunk)) > c.maxTokens
        THEN [push(c1, <<>>, <<"Chunk ", Digit(c.chunkNumber)>>)
                  EXCEPT !.currentChunk = <<>>, !.chunkNumber = @ + 1]
        ELSE c1

\* src/lib/chunker.js 847-857: the last chunk of chunkBySize
flushBySize(c) ==
    [(IF ~IsBlankText(c.currentChunk)
      THEN push(c, <<>>, <<"Chunk ", Digit(c.chunkNumber)>>) ELSE c) EXCEPT !.pc = "done"]

\* the literals of the regular expressions and tests of the chunkers
kwImport == <<"i", "m", "p", "o", "r", "t", " ">>
kwExport == <<"e", "x", "p", "o", "r", "t", " ">>
kwPackage == <<"p", "a", "c", "k", "a", "g", "e", " ">>
kwFunction == <<"f", "u", "n", "c", "t", "i", "o", "n">>
kwClass == <<"c", "l", "a", "s", "s">>
kwInterface == <<"i", "n", "t", "e", "r", "f", "a", "c", "e">>
kwEnum == <<"e", "n", "u", "m">>
kwConst == <<"c", "o", "n", "s", "t">>
kwDefault == <<"d", "e", "f", "a", "u", "l", "t">>
kwPublic == <<"p", "u", "b", "l", "i", "c", " ">>
kwPrivate == <<"p", "r", "i", "v", "a", "t", "e", " ">>
kwProtected == <<"p", "r", "o", "t", "e", "c", "t", "e", "d", " ">>
kwVoid == <<"v", "o", "i", "d", " ">>

\* /function\s+(\w+)\s*\(/
reFunction == <<<<Lit(kwFunction), Ws1, Word, Ws0, Lit(<<"(">>)>>>>
\* /class\s+(\w+)/
reClass == <<<<Lit(kwClass), Ws1, Word>>>>
\* /const\s+(\w+)\s*=\s*(\(\s*\)|function|\{)/
reConstDecl ==
    <<<<Lit(kwConst), Ws1, Word, Ws0, Lit(<<"=">>), Ws0, Lit(<<"(">>), Ws0, Lit(<<")">>)>>,
      <<Lit(kwConst), Ws1, Word, Ws0, Lit(<<"=">>), Ws0, Lit(kwFunction)>>,
      <<Lit(kwConst), Ws1, Word, Ws0, Lit(<<"=">>), Ws0, Lit(<<"{">>)>>>>
\* /const\s+(\w+)\s*=/
reConst == <<<<Lit(kwConst), Ws1, Word, Ws0, Lit(<<"=">>)>>>>
\* /export\s+(default\s+)?function\s+(\w+)/
reExportFunction ==
    <<<<Lit(SubSeq(kwExport, 1, 6)), Ws1, Lit(kwDefault), Ws1, Lit(kwFunction), Ws1, Word>>,
      <<Lit(SubSeq(kwExport, 1, 6)), Ws1, Lit(kwFunction), Ws1, Word>>>>
\* /export\s+(default\s+)?class\s+(\w+)/
reExportClass ==
    <<<<Lit(SubSeq(kwExport, 1, 6)), Ws1, Lit(kwDefault), Ws1, Lit(kwClass), Ws1, Word>>,
      <<Lit(SubSeq(kwExport, 1, 6)), Ws1, Lit(kwClass), Ws1, Word>>>>
\* /\s+(\w+)\s*\(/
reMethod == <<<<Ws1, Word, Ws0, Lit(<<"(">>)>>>>
\* /\s*((public|private|protected)\s+)?(class|interface|enum)\s+(\w+)/: the
\* leading items may match nothing, so a match is one of the keyword's
reJavaClass ==
    <<<<Lit(kwClass), Ws1, Word>>, <<Lit(kwInterface), Ws1, Word>>, <<Lit(kwEnum), Ws1, Word>>>>

\* src/lib/chunker.js 93, 107: the test of an import or export line
jsImportLine(line) == startsWith(trim(line), kwImport) \/ startsWith(trim(line), kwExport)

RECURSIVE jsImports(_, _)
\* src/lib/chunker.js 89-100: the first pass, from line i (1-based here)
jsImports(lines, i) ==
    IF i > Len(lines) THEN <<>>
    ELSE IF jsImportLine(lines[i]) THEN <<lines[i]>> \o jsImports(lines, i + 1)
    ELSE IF ~IsBlank(lines[i]) THEN <<>>
    ELSE jsImports(lines, i + 1)

\* src/lib/chunker.js 79-102: chunkJSTS before its second loop
startJSTS(c) == [c EXCEPT !.preamble = jsImports(c.lines, 1), !.inImportSection = FALSE]

\* src/lib/chunker.js 115-120: the test of a declaration line
jsDeclaration(line) ==
    \/ match(line, reFunction).matched
    \/ match(line, reClass).matched
    \/ match(line, reConstDecl).matched
    \/ match(line, reExportFunction).matched
    \/ match(line, reExportClass).matched

\* src/lib/chunker.js 134-144: the name of the declaration
jsName(line, currentChunkName) ==
    IF match(line, reFunction).matched THEN match(line, reFunction).name
    ELSE IF match(line, reClass).matched THEN match(line, reClass).name
    ELSE IF match(line, reConst).matched THEN match(line, reConst).name
    ELSE IF match(line, reExportFunction).matched THEN match(line, reExportFunction).name
    ELSE IF match(line, reExportClass).matched THEN match(line, reExportClass).name
    ELSE currentChunkName

\* src/lib/chunker.js 114-151: a declaration at depth 0 closes the chunk
\* before it and opens one; any other line joins the current chunk
jsDetect(c, line) ==
    IF c.blockDepth = 0 /\ jsDeclaration(line)
    THEN [(IF ~IsBlankText(c.currentChunk)
           THEN push(c, c.preamble, named(c, <<"Unnamed section">>)) ELSE c)
              EXCEPT !.currentChunkName = jsName(line, @), !.currentChunk = <<line>>]
    ELSE [c EXCEPT !.currentChunk = Append(@, line)]

\* src/lib/chunker.js 158-170: the chunk is cut once it exceeds maxTokens
\* at depth 0
jsSizeFlush(c) ==
    IF estimateTokens(Text(c.currentChunk)) > c.maxTokens /\ c.blockDepth = 0
    THEN [push(c, c.preamble, named(c, <<"Unnamed section">>)) EXCEPT !.currentChunk = <<>>]
    ELSE c

\* src/lib/chunker.js 105-171: one iteration of the second loop of chunkJSTS
stepJSTS(c) ==
    LET line == c.lines[c.i + 1]
        next == [c EXCEPT !.i = c.i + 1]
    IN  IF c.inImportSection /\ (jsImportLine(line) \/ IsBlank(line))
        THEN next
        ELSE jsSizeFlush(trackDepth(jsDetect([next EXCEPT !.inImportSection = FALSE], line),
                                    line))

\* src/lib/chunker.js 173-183: the last chunk of chunkJSTS
flushJSTS(c) ==
    [(IF ~IsBlankText(c.currentChunk)
      THEN push(c, c.preamble, named(c, <<"Unnamed section">>)) ELSE c) EXCEPT !.pc = "done"]

RECURSIVE javaPreamble(_, _)
\* src/lib/chunker.js 364-377: the number of leading package, import and
\* blank lines, from line i (1-based here)
javaPreamble(lines, i) ==
    IF i > Len(lines) THEN 0
    ELSE IF \/ startsWith(trim(lines[i]), kwPackage)
            \/ startsWith(trim(lines[i]), kwImport)
            \/ IsBlank(lines[i])
    THEN 1 + javaPreamble(lines, i + 1)
    ELSE 0

\* src/lib/chunker.js 353-377: chunkJava before its second loop
startJava(c) ==
    LET n == javaPreamble(c.lines, 1)
    IN  [c EXCEPT !.preamble = SubSeq(c.lines, 1, n), !.i = n]

\* src/lib/chunker.js 384-386: the test of a method line
javaMethodLine(line) ==
    /\ \/ includes(line, kwPublic) \/ includes(line, kwPrivate)
       \/ includes(line, kwProtected) \/ includes(line, kwVoid)
    /\ includes(line, <<"(">>)
    /\ ~includes(line, <<";">>)

\* src/lib/chunker.js 383-424: a method line at depth 1 opens a chunk and
\* closes the one before it only if that one was a method; a class line at
\* depth 0 closes the chunk before it and opens one; any other line joins
\* the current chunk
javaDetect(c, line) ==
    IF c.blockDepth = 1 /\ javaMethodLine(line)
    THEN [(IF ~IsBlankText(c.currentChunk) /\ c.inMethod
           THEN push(c, c.preamble, named(c, <<"Unnamed method">>)) ELSE c)
              EXCEPT !.currentChunkName = IF match(line, reMethod).matched
                                          THEN match(line, reMethod).name
                                          ELSE <<"Unnamed method">>,
                     !.currentChunk = <<line>>,
                     !.inMethod = TRUE]
    ELSE IF c.blockDepth = 0 /\ match(line, reJavaClass).matched
    THEN [(IF ~IsBlankText(c.currentChunk)
           THEN push(c, c.preamble, named(c, <<"Unnamed section">>)) ELSE c)
              EXCEPT !.currentChunkName = match(line, reJavaClass).name,
                     !.currentChunk = <<line>>,
                     !.inClass = TRUE]
    ELSE [c EXCEPT !.currentChunk = Append(@, line)]

\* src/lib/chunker.js 431-443: a method is cut once it exceeds maxTokens at
\* depth 1
javaSizeFlush(c) ==
    IF c.inMethod /\ estimateTokens(Text(c.currentChunk)) > c.maxTokens /\ c.blockDepth = 1
    THEN [push(c, c.preamble, named(c, <<"Unnamed method">>))
              EXCEPT !.currentChunk = <<>>, !.inMethod = FALSE]
    ELSE c

\* src/lib/chunker.js 445-457: the closing brace of a method
javaEndMethod(c, line) ==
    IF c.inMethod /\ c.blockDepth = 1 /\ trim(line) = <<"}">>
    THEN [push(c, c.preamble, named(c, <<"Unnamed method">>))
              EXCEPT !.currentChunk = <<>>, !.inMethod = FALSE]
    ELSE c

\* src/lib/chunker.js 459-475: the closing brace of a class
javaEndClass(c, line) ==
    IF c.inClass /\ c.blockDepth = 0 /\ trim(line) = <<"}">>
    THEN [(IF ~c.inMethod /\ ~IsBlankText(c.currentChunk)
           THEN push(c, c.preamble, named(c, <<"Unnamed class">>)) ELSE c)
              EXCEPT !.currentChunk = <<>>, !.inClass = FALSE, !.currentChunkName = <<>>]
    ELSE c

\* src/lib/chunker.js 380-476: one iteration of the second loop of chunkJava
stepJava(c) ==
    LET line == c.lines[c.i + 1]
        detected == javaDetect([c EXCEPT !.i = c.i + 1], line)
    IN  javaEndClass(javaEndMethod(javaSizeFlush(trackDepth(detected, line)), line), line)

\* src/lib/chunker.js 478-488: the last chunk of chunkJava
flushJava(c) ==
    [(IF ~IsBlankText(c.currentChunk)
      THEN push(c, c.preamble, named(c, <<"Unnamed section">>)) ELSE c) EXCEPT !.pc = "done"]

\* /func\s+(?:\([^)]+\)\s+)?(\w+)/
reGoFunc ==
    <<<<Lit(kwFunc), Ws1, Lit(<<"(">>), NotIn1({")"}), Lit(<<")">>), Ws1, Word>>,
      <<Lit(kwFunc), Ws1, Word>>>>
\* /type\s+(\w+)/
reGoType == <<<<Lit(kwType), Ws1, Word>>>>
\* /^\s*\w+(?:[\s*]+\w+)*\s+\w+\s*\(/, with the group zero times, once
\* and twice (a line of up to four words before the parenthesis)
reCFunction ==
    <<<<Bol, Ws0, Words, Ws1, Words, Ws0, Lit(<<"(">>)>>,
      <<Bol, Ws0, Words, In1({" ", "*"}), Words, Ws1, Words, Ws0, Lit(<<"(">>)>>,
      <<Bol, Ws0, Words, In1({" ", "*"}), Words, In1({" ", "*"}), Words, Ws1, Words, Ws0,
        Lit(<<"(">>)>>>>
\* /\s(\w+)\s*\(/
reCFuncName == <<<<Sp, Word, Ws0, Lit(<<"(">>)>>>>
\* /^\s*(?:class|struct|enum|union)\s+\w+/
reCType ==
    <<<<Bol, Ws0, Lit(kwClass), Ws1, Words>>, <<Bol, Ws0, Lit(kwStruct), Ws1, Words>>,
      <<Bol, Ws0, Lit(kwEnum), Ws1, Words>>, <<Bol, Ws0, Lit(kwUnion), Ws1, Words>>>>
\* /^\s*typedef\s+(?:struct|enum|union)\s+\w+/
reCTypedef ==
    <<<<Bol, Ws0, Lit(kwTypedef), Ws1, Lit(kwStruct), Ws1, Words>>,
      <<Bol, Ws0, Lit(kwTypedef), Ws1, Lit(kwEnum), Ws1, Words>>,
      <<Bol, Ws0, Lit(kwTypedef), Ws1, Lit(kwUnion), Ws1, Words>>>>
\* the alternatives of /(?:class|struct|enum|union|typedef)\s+(?:struct|enum|union)?\s*(\w+)/
\* that start with keyword: with the optional group before without it
cTypeNameOf(keyword) ==
    <<<<Lit(keyword), Ws1, Lit(kwStruct), Ws0, Word>>,
      <<Lit(keyword), Ws1, Lit(kwEnum), Ws0, Word>>,
      <<Lit(keyword), Ws1, Lit(kwUnion), Ws0, Word>>,
      <<Lit(keyword), Ws1, Word>>>>
reCTypeName ==
    cTypeNameOf(kwClass) \o cTypeNameOf(kwStruct) \o cTypeNameOf(kwEnum)
        \o cTypeNameOf(kwUnion) \o cTypeNameOf(kwTypedef)
\* /\s*(?:pub\s+)?fn\s+\w+/
reRustFn == <<<<Lit(kwPub), Ws1, Lit(kwFn), Ws1, Words>>, <<Lit(kwFn), Ws1, Words>>>>
\* /fn\s+(\w+)/
reRustFnName == <<<<Lit(kwFn), Ws1, Word>>>>
\* /(?:struct|enum|trait|impl|type|mod)\s+(\w+)/; a line matches it exactly
\* when it matches /\s*(?:pub\s+)?(?:struct|enum|trait|impl|type|mod)\s+\w+/,
\* whose leading \s* and pub\s+ may both be empty
reRustType ==
    <<<<Lit(kwStruct), Ws1, Word>>, <<Lit(kwEnum), Ws1, Word>>, <<Lit(kwTrait), Ws1, Word>>,
      <<Lit(kwImpl), Ws1, Word>>, <<Lit(kwType), Ws1, Word>>, <<Lit(kwMod), Ws1, Word>>>>

\* src/lib/chunker.js 509-512, 614-617, 726-729: the test of a line of the
\* leading section of a Go, a C/C++ and a Rust file
headerLine(lang, line) ==
    \/ IsBlank(line)
    \/ startsWith(trim(line), kwComment)
    \/ CASE lang = "go" -> \/ startsWith(trim(line), kwPackage)
                           \/ startsWith(trim(line), kwImport)
         [] lang = "rust" -> \/ startsWith(trim(line), kwUse)
                             \/ startsWith(trim(line), kwExternCrate)
         [] OTHER -> \/ startsWith(trim(line), kwInclude)
                     \/ startsWith(trim(line), kwDefine)
                     \/ startsWith(trim(line), kwPragma)

RECURSIVE headerLength(_, _, _)
\* src/lib/chunker.js 506-518, 611-623, 723-735: the number of leading
\* lines of the first loop, from line i (1-based here)
headerLength(lang, lines, i) ==
    IF i > Len(lines) THEN 0
    ELSE IF headerLine(lang, lines[i]) THEN 1 + headerLength(lang, lines, i + 1)
    ELSE 0

\* src/lib/chunker.js 496-518, 601-623, 713-735: chunkGo, chunkCCpp and
\* chunkRust before their second loop
startBraces(c) ==
    LET n == headerLength(c.lang, c.lines, 1)
    IN  [c EXCEPT !.preamble = SubSeq(c.lines, 1, n), !.i = n]

\* a declaration line closes the chunk before it and opens one of this name
openChunk(c, line, name) ==
    [(IF ~IsBlankText(c.currentChunk)
      THEN push(c, c.preamble, named(c, <<"Unnamed section">>)) ELSE c)
         EXCEPT !.currentChunkName = name, !.currentChunk = <<line>>]

\* src/lib/chunker.js 524-561: a func line, or a type line with struct in it,
\* at depth 0
goDetect(c, line) ==
    IF c.blockDepth = 0 /\ startsWith(trim(line), <<"f", "u", "n", "c", " ">>)
    THEN openChunk(c, line, IF match(line, reGoFunc).matched
                            THEN match(line, reGoFunc).name
                            ELSE <<"Unnamed function">>)
    ELSE IF /\ c.blockDepth = 0
            /\ startsWith(trim(line), <<"t", "y", "p", "e", " ">>)
            /\ includes(line, kwStruct)
    THEN openChunk(c, line, IF match(line, reGoType).matched
                            THEN match(line, reGoType).name
                            ELSE <<"Unnamed struct">>)
    ELSE [c EXCEPT !.currentChunk = Append(@, line)]

\* src/lib/chunker.js 629-672: a function line without ";", or a type line,
\* at depth 0
cDetect(c, line) ==
    IF c.blockDepth = 0 /\ match(line, reCFunction).matched /\ ~includes(line, <<";">>)
    THEN openChunk(c, line, IF match(line, reCFuncName).matched
                            THEN match(line, reCFuncName).name
                            ELSE <<"Unnamed function">>)
    ELSE IF /\ c.blockDepth = 0
            /\ match(line, reCType).matched \/ match(line, reCTypedef).matched
    THEN openChunk(c, line, IF matchFirst(line, reCTypeName).matched
                            THEN matchFirst(line, reCTypeName).name
                            ELSE <<"Unnamed type">>)
    ELSE [c EXCEPT !.currentChunk = Append(@, line)]

\* src/lib/chunker.js 741-779: a fn line, or a type line, at depth 0
rustDetect(c, line) ==
    IF c.blockDepth = 0 /\ match(line, reRustFn).matched
    THEN openChunk(c, line, IF match(line, reRustFnName).matched
                            THEN match(line, reRustFnName).name
                            ELSE <<"Unnamed function">>)
    ELSE IF c.blockDepth = 0 /\ match(line, reRustType).matched
    THEN openChunk(c, line, match(line, reRustType).name)
    ELSE [c EXCEPT !.currentChunk = Append(@, line)]

\* a size overflow that does not wait for depth 0
sizeAnywhere(c, line) ==
    IF /\ ~IsBlankText(c.currentChunk)
       /\ \/ c.blockDepth = 0 /\ trim(line) = <<"}">>
          \/ estimateTokens(Text(c.currentChunk)) > c.maxTokens
    THEN [push(c, c.preamble, named(c, <<"Unnamed section">>))
              EXCEPT !.currentChunk = <<>>, !.currentChunkName = <<>>]
    ELSE c

\* src/lib/chunker.js 568-580, 679-692, 786-799: at depth 0 the chunk is
\* closed by a closing brace (a line that is one in Go and Rust, a line that
\* has one in C/C++) and once it exceeds maxTokens
bracesEnd(c, line) ==
    IF /\ c.blockDepth = 0
       /\ ~IsBlankText(c.currentChunk)
       /\ \/ IF c.lang \in {"go", "rust"} THEN trim(line) = <<"}">>
             ELSE includes(line, <<"}">>)
          \/ estimateTokens(Text(c.currentChunk)) > c.maxTokens
    THEN [push(c, c.preamble, named(c, <<"Unnamed section">>))
              EXCEPT !.currentChunk = <<>>, !.currentChunkName = <<>>]
    ELSE c

\* src/lib/chunker.js 521-581, 626-693, 738-800: one iteration of the second
\* loop of chunkGo, chunkCCpp and chunkRust
stepBraces(c) ==
    LET line == c.lines[c.i + 1]
        next == [c EXCEPT !.i = c.i + 1]
        detected == CASE c.lang = "go" -> goDetect(next, line)
                      [] c.lang = "rust" -> rustDetect(next, line)
                      [] OTHER -> cDetect(next, line)
    IN  bracesEnd(trackDepth(detected, line), line)

\* src/lib/chunker.js 583-593, 695-705, 802-812: the last chunk
flushBraces(c) ==
    [(IF ~IsBlankText(c.currentChunk)
      THEN push(c, c.preamble, named(c, <<"Unnamed section">>)) ELSE c) EXCEPT !.pc = "done"]

kwDef == <<"d", "e", "f">>
kwFrom == <<"f", "r", "o", "m", " ">>

\* /def\s+(\w+)\s*\(/
reDef == <<<<Lit(kwDef), Ws1, Word, Ws0, Lit(<<"(">>)>>>>

\* src/lib/chunker.js 207, 223: the test of an import line
pyImportLine(line) == startsWith(trim(line), kwImport) \/ startsWith(trim(line), kwFrom)

RECURSIVE pyImports(_, _)
\* src/lib/chunker.js 204-213: the first pass, from line i (1-based here);
\* blank lines and comments are passed over
pyImports(lines, i) ==
    IF i > Len(lines) THEN <<>>
    ELSE IF pyImportLine(lines[i]) THEN <<lines[i]>> \o pyImports(lines, i + 1)
    ELSE IF ~IsBlank(lines[i]) /\ ~startsWith(trim(lines[i]), <<"#">>) THEN <<>>
    ELSE pyImports(lines, i + 1)

\* src/lib/chunker.js 191-215: chunkPython before its second loop
startPython(c) == [c EXCEPT !.preamble = pyImports(c.lines, 1), !.inImportSection = FALSE]

\* src/lib/chunker.js 230: the test of a line "at root level"; it is made on
\* the trimmed line, which never starts with a blank
pyRootLevel(line) ==
    /\ trim(line) # <<>>
    /\ ~startsWith(trim(line), <<" ">>)
    /\ ~startsWith(trim(line), <<"\t">>)

\* line.search(/\S|$/)
pyIndent(line) ==
    IF IsBlank(line) THEN Len(line)
    ELSE (CHOOSE x \in DOMAIN line : ~IsSpace(line[x]) /\ \A y \in 1..(x - 1) : IsSpace(line[y])) - 1

\* src/lib/chunker.js 273-287 and 297-310: the chunk of the function or class
\* is pushed and the line opens an unnamed chunk
pyEndBlock(c, line) ==
    [push(c, c.preamble, c.currentChunkName)
         EXCEPT !.inFunction = FALSE, !.inClass = FALSE,
                !.currentChunk = <<line>>, !.currentChunkName = <<>>]

\* src/lib/chunker.js 229-315: the line is a def, a class, the end of the
\* function or class, or joins the current chunk
pyDetect(c, line) ==
    LET flushed == IF ~IsBlankText(c.currentChunk)
                   THEN push(c, c.preamble, named(c, <<"Unnamed section">>)) ELSE c
    IN  IF pyRootLevel(line)
        THEN IF startsWith(trim(line), kwDef \o <<" ">>)
             THEN [flushed EXCEPT !.currentChunkName =
                                      IF match(line, reDef).matched
                                      THEN match(line, reDef).name
                                      ELSE <<"Unnamed function">>,
                                  !.currentChunk = <<line>>,
                                  !.inFunction = TRUE]
             ELSE IF startsWith(trim(line), kwClass \o <<" ">>)
             THEN [flushed EXCEPT !.currentChunkName =
                                      IF match(line, reClass).matched
                                      THEN match(line, reClass).name
                                      ELSE <<"Unnamed class">>,
                                  !.currentChunk = <<line>>,
                                  !.inClass = TRUE]
             ELSE IF c.inFunction \/ c.inClass
             THEN pyEndBlock(c, line)
             ELSE [c EXCEPT !.currentChunk = Append(@, line)]
        ELSE IF (c.inFunction \/ c.inClass) /\ pyIndent(line) = 0 /\ trim(line) # <<>>
        THEN pyEndBlock(c, line)
        ELSE [c EXCEPT !.currentChunk = Append(@, line)]

\* src/lib/chunker.js 317-332: the chunk is cut once it exceeds maxTokens
\* outside a function or class
pySizeFlush(c) ==
    IF estimateTokens(Text(c.currentChunk)) > c.maxTokens /\ ~c.inFunction /\ ~c.inClass
    THEN [push(c, c.preamble, named(c, <<"Unnamed section">>)) EXCEPT !.currentChunk = <<>>]
    ELSE c

\* src/lib/chunker.js 218-333: one iteration of the second loop of chunkPython
stepPython(c) ==
    LET line == c.lines[c.i + 1]
        next == [c EXCEPT !.i = c.i + 1]
    IN  IF c.inImportSection
           /\ (pyImportLine(line) \/ IsBlank(line) \/ startsWith(trim(line), <<"#">>))
        THEN next
        ELSE pySizeFlush(pyDetect([next EXCEPT !.inImportSection = FALSE], line))

\* src/lib/chunker.js 335-345: the last chunk of chunkPython
flushPython(c) ==
    [(IF ~IsBlankText(c.currentChunk)
      THEN push(c, c.preamble, named(c, <<"Unnamed section">>)) ELSE c) EXCEPT !.pc = "done"]

\* src/lib/chunker.js 17-48: chunkCodeFile up to the loop of the chunker of
\* the file's language
chunkCodeFile(lines, extension, maxTokens) ==
    LET lang == getLanguageFromExtension(extension)
        c == [NoChunker EXCEPT !.lang = lang, !.lines = lines, !.maxTokens = maxTokens,
                               !.pc = "scan"]
    IN  CASE lang \in {"javascript", "typescript"} -> startJSTS(c)
          [] lang = "python" -> startPython(c)
          [] lang = "java" -> startJava(c)
          [] lang \in {"go", "c", "cpp", "rust"} -> startBraces(c)
          [] OTHER -> c

----------------------------------------------------------------------------
(* The process-repo handler (src/pages/api/process-repo.js 7-115).  A      *)
(* request is the record of the handler's locals, the responses it sent    *)
(* and where it is suspended: "repoInfo", "listing", "fetch" (the download *)
(* of fileBatch[j]), "embed" and "delay" (inside batchProcessEmbeddings),  *)
(* or "done".  The awaits of the store functions do no I/O and resolve in  *)
(* the same turn, so a store call belongs to the step that reaches it.     *)

\* the two requests the claims about pairs of runs speak of
Runs == {1, 2}

MAX_FILES == 40
MAX_FILES_PER_BATCH == 20

Methods == {"POST", "GET"}

\* req.body.url: absent, or a string that new URL() parses (or not) into a
\* hostname and the non-empty segments of its path
NoUrl == [given |-> FALSE, parses |-> FALSE, hostname |-> "", pathSegments |-> <<>>]
NotAUrl == [given |-> TRUE, parses |-> FALSE, hostname |-> "", pathSegments |-> <<>>]
Url(hostname, pathSegments) ==
    [given |-> TRUE, parses |-> TRUE, hostname |-> hostname, pathSegments |-> pathSegments]
Urls ==
    {NoUrl, NotAUrl,
     Url("gitlab.com", <<<<"o">>, <<"a", "-", "b">>>>),
     Url("github.com", <<<<"o">>>>),
     Url("github.com", <<<<"o">>, <<"a", "-", "b">>>>),
     Url("github.com", <<<<"o">>, <<"a", "_", "b">>>>)}

\* src/lib/github.js 24-46
parseGitHubUrl(url) ==
    IF \/ ~url.parses
       \/ url.hostname # "github.com"
       \/ Len(url.pathSegments) < 2
    THEN [threw |-> TRUE, owner |-> <<>>, repo |-> <<>>]
    ELSE [threw |-> FALSE, owner |-> url.pathSegments[1], repo |-> url.pathSegments[2]]

\* src/lib/utils.js 37-39
getRepositoryId(owner, repo) == owner \o <<"/">> \o repo

\* What the getContent calls of one getAllFiles answer: ok, whether the call
\* for the repository root succeeded; subdirError, whether the call for some
\* subdirectory failed; n, the number of supported files in the directories
\* whose call succeeded.
Listing(ok, subdirError, n) == [ok |-> ok, subdirError |-> subdirError, n |-> n]
ListingOutcomes ==
    {Listing(FALSE, FALSE, 0)} \cup {Listing(TRUE, FALSE, n) : n \in 0..MaxListing}
\* a subdirectory that cannot be listed beside the ones that can
PartialListings == {Listing(TRUE, TRUE, n) : n \in 0..MaxListing}
\* repositories of more files than a batch, and than the handler takes
LongListings ==
    {Listing(TRUE, FALSE, n) : n \in {MAX_FILES_PER_BATCH + 1, MAX_FILES + 1}}

\* src/lib/github.js 83-126: a call that fails is caught (122-125) and gives
\* the empty list for its directory
getAllFiles(outcome) == IF outcome.ok THEN [f \in 1..outcome.n |-> f] ELSE <<>>

\* src/lib/github.js 163-176: a download that fails is caught and is null;
\* a content is told by the number of chunks chunkCodeFile makes of it
\* (threw: chunkCodeFile throws on it)
FetchOutcomes ==
    {[content |-> FALSE, chunks |-> 0, threw |-> FALSE],
     [content |-> TRUE, chunks |-> 0, threw |-> TRUE]}
        \cup {[content |-> TRUE, chunks |-> c, threw |-> FALSE] : c \in 0..MaxChunksPerFile}

\* what the embedding service answers to a call of a request
IngestOutcomes == {Failure, [ok |-> TRUE, embedding |-> Vec(<<1, 0>>)]}

\* src/pages/api/process-repo.js 71: the chunks of file number file of run r
fileChunks(r, file, c) == [k \in 1..c |-> [content |-> <<r, file, k>>]]

NoRequest ==
    [pc |-> "idle", repoId |-> NoRepoId, files |-> <<>>, i |-> 0, j |-> 0,
     processedFiles |-> <<>>, allChunks |-> <<>>, embedRun |-> NoBatch, res |-> <<>>,
     listingFailed |-> FALSE]

\* a response sent twice
respondTwice(q, status, body) ==
    [q EXCEPT !.pc = "done", !.files = <<>>, !.i = 0, !.j = 0, !.processedFiles = <<>>,
              !.embedRun = NoBatch,
              !.res = @ \o <<[status |-> status, body |-> body],
                             [status |-> status, body |-> body]>>]

\* res.status(status).json(body) and the return: the locals die, but for
\* allChunks, kept as the record of what the run embedded (and listingFailed,
\* the record that getAllFiles caught and logged an error, github.js 122-124)
respond(q, status, body) ==
    [q EXCEPT !.pc = "done", !.files = <<>>, !.i = 0, !.j = 0, !.processedFiles = <<>>,
              !.embedRun = NoBatch,
              !.res = Append(@, [status |-> status, body |-> body])]

\* src/pages/api/process-repo.js 107-114
failed(q, message) ==
    respond(q, 500, [error |-> "Failed to process repository", message |-> message])

\* a listing without files answered as a success that counts no file
emptySuccess(q) ==
    respond(q, 200, [fileCount |-> 0, message |-> "No supported code files found in the repository"])

\* src/pages/api/process-repo.js 39-43
noFiles(q) ==
    respond(q, 400, [error |-> "No supported code files found in the repository"])

\* src/pages/api/process-repo.js 50
\* every file of the listing
allFiles(q) == q.files

limitedFiles(q) == SubSeq(q.files, 1, Min(Len(q.files), MAX_FILES))

\* src/pages/api/process-repo.js 58
fileBatch(q) ==
    SubSeq(limitedFiles(q), q.i + 1, Min(q.i + MAX_FILES_PER_BATCH, Len(limitedFiles(q))))

\* an end of run that fails after its insert
insertThenFail(vs, q) ==
    IF Len(q.allChunks) = 0
    THEN [vs |-> vs,
          q |-> respond(q, 400, [error |-> "Failed to generate any code chunks from the repository"])]
    ELSE [vs |-> addChunksToVectorStore(vs, q.repoId, q.allChunks).vs,
          q |-> failed(q, "Error getting collection")]

\* an end of run that clears the collection in the step that inserts
clearAndFinish(vs, q) ==
    IF Len(q.allChunks) = 0
    THEN [vs |-> vs,
          q |-> respond(q, 400, [error |-> "Failed to generate any code chunks from the repository"])]
    ELSE [vs |-> addChunksToVectorStore(deleteRepositoryData(vs, q.repoId),
                                        q.repoId, q.allChunks).vs,
          q |-> respond(q, 200, [success |-> TRUE, repository |-> q.repoId,
                                 processedFiles |-> Len(limitedFiles(q)),
                                 processedChunks |-> Len(q.allChunks)])]

\* src/pages/api/process-repo.js 87-106
finish(vs, q) ==
    IF Len(q.allChunks) = 0
    THEN [vs |-> vs,
          q |-> respond(q, 400, [error |-> "Failed to generate any code chunks from the repository"])]
    ELSE LET added == addChunksToVectorStore(vs, q.repoId, q.allChunks)
             got == getCollection(added.vs, q.repoId)
         IN  IF added.threw THEN [vs |-> added.vs, q |-> failed(q, "Error adding chunks")]
             ELSE IF got.threw THEN [vs |-> got.vs, q |-> failed(q, "Error getting collection")]
             ELSE [vs |-> got.vs,
                   q |-> respond(q, 200, [success |-> TRUE, repository |-> q.repoId,
                                          processedFiles |-> Len(limitedFiles(q)),
                                          processedChunks |-> Len(q.allChunks)])]

\* src/pages/api/process-repo.js 57-59, 85: i += MAX_FILES_PER_BATCH, then the
\* next batch of files or the end of the loop
nextBatch(vs, q) ==
    LET q1 == [q EXCEPT !.i = q.i + MAX_FILES_PER_BATCH]
    IN  IF q1.i < Len(limitedFiles(q1))
        THEN [vs |-> vs, q |-> [q1 EXCEPT !.pc = "fetch", !.j = 1, !.processedFiles = <<>>]]
        ELSE finish(vs, q1)

\* a loop that inserts the chunks of each batch as soon as they are embedded
insertPerBatch(vs, q) ==
    IF q.embedRun.at = "returned"
    THEN nextBatch(addChunksToVectorStore(vs, q.repoId, q.embedRun.embeddedChunks).vs,
                   [q EXCEPT !.allChunks = @ \o q.embedRun.embeddedChunks])
    ELSE [vs |-> vs, q |-> [q EXCEPT !.pc = IF q.embedRun.at = "delay" THEN "delay" ELSE "embed"]]

\* src/pages/api/process-repo.js 81-84, with batchProcessEmbeddings suspended
\* or returned
afterEmbed(vs, q) ==
    IF q.embedRun.at = "returned"
    THEN nextBatch(vs, [q EXCEPT !.allChunks = @ \o q.embedRun.embeddedChunks])
    ELSE [vs |-> vs, q |-> [q EXCEPT !.pc = IF q.embedRun.at = "delay" THEN "delay" ELSE "embed"]]

\* src/pages/api/process-repo.js 81-82: after the last file of the batch
afterFiles(vs, q) ==
    IF Len(q.processedFiles) > 0
    THEN afterEmbed(vs, [q EXCEPT !.embedRun = startBatch(q.processedFiles)])
    ELSE nextBatch(vs, q)

\* src/pages/api/process-repo.js 8-28: up to the first await
start(q, method, url) ==
    LET parsed == parseGitHubUrl(url)
    IN  IF method # "POST" THEN respond(q, 405, [error |-> "Method not allowed"])
        ELSE IF ~url.given THEN respond(q, 400, [error |-> "Repository URL is required"])
        ELSE IF parsed.threw THEN failed(q, "Invalid GitHub URL")
        ELSE [q EXCEPT !.pc = "repoInfo",
                       !.repoId = getRepositoryId(parsed.owner, parsed.repo)]

\* src/pages/api/process-repo.js 28-35: getRepositoryInfo settles
onRepoInfo(vs, q, ok) ==
    IF ~ok THEN [vs |-> vs, q |-> failed(q, "Failed to fetch repository information")]
    ELSE [vs |-> deleteRepositoryData(vs, q.repoId), q |-> [q EXCEPT !.pc = "listing"]]

\* src/pages/api/process-repo.js 35-67: getAllFiles settles
onListing(vs, q, outcome) ==
    LET q1 == [q EXCEPT !.files = getAllFiles(outcome),
                        !.listingFailed = ~outcome.ok \/ outcome.subdirError]
    IN  IF Len(q1.files) = 0 THEN [vs |-> vs, q |-> noFiles(q1)]
        ELSE [vs |-> vs, q |-> [q1 EXCEPT !.pc = "fetch", !.i = 0, !.j = 1,
                                           !.allChunks = <<>>, !.processedFiles = <<>>]]

\* a file that cannot be downloaded ends the run in the handler's catch
onFetchAbort(vs, q, r, outcome) ==
    LET chunks == IF outcome.content /\ ~outcome.threw
                  THEN fileChunks(r, fileBatch(q)[q.j], outcome.chunks) ELSE <<>>
        q1 == [q EXCEPT !.processedFiles = @ \o chunks]
    IN  IF ~outcome.content THEN [vs |-> vs, q |-> failed(q, "Failed to fetch file")]
        ELSE IF q.j < Len(fileBatch(q))
        THEN [vs |-> vs, q |-> [q1 EXCEPT !.j = q.j + 1]]
        ELSE afterFiles(vs, q1)

\* the downloads the model follows in full: every file of a short listing,
\* and the first file of each batch of a long one; the other files of a long
\* listing cannot be downloaded
fetchable(q) ==
    IF \/ Len(q.files) <= MaxListing
       \/ (fileBatch(q)[q.j] - 1) % MAX_FILES_PER_BATCH = 0
    THEN FetchOutcomes
    ELSE {[content |-> FALSE, chunks |-> 0, threw |-> FALSE]}

\* src/pages/api/process-repo.js 64-78: getFileContent of fileBatch[j] settles;
\* a chunkCodeFile that throws is caught at 74 and the file gives no chunk
onFetch(vs, q, r, outcome) ==
    LET chunks == IF outcome.content /\ ~outcome.threw
                  THEN fileChunks(r, fileBatch(q)[q.j], outcome.chunks) ELSE <<>>
        q1 == [q EXCEPT !.processedFiles = @ \o chunks]
    IN  IF q.j < Len(fileBatch(q))
        THEN [vs |-> vs, q |-> [q1 EXCEPT !.j = q.j + 1]]
        ELSE afterFiles(vs, q1)

----------------------------------------------------------------------------
(* The chat handler: src/unnamed/part_013 6-91 ("chat") and its earlier    *)
(* variant src/pages/api/code-health.js 523-580 ("legacy").  A request is  *)
(* the record of the handler's locals, the responses it sent and where it  *)
(* is suspended: "embedding" (generateEmbedding), "repoInfo"               *)
(* (getRepositoryInfo), "groq" (the completion call of queryGroq), or      *)
(* "done".  A message built by a template string is the sequence of its    *)
(* parts.  retrieval records the branch taken: "empty" when the handler    *)
(* found no chunk to answer from, "found" when the query returned chunks.  *)
(* groqCalls counts the calls of groq.chat.completions.create, upstream is *)
(* the error text the service gave, if it failed.                          *)

ChatVariants == {"chat", "legacy"}

\* req.body.question: absent or empty, or a text that the regular expression
\* of part_013 47 takes for a code generation request or not
Questions == {[given |-> FALSE, codeGeneration |-> FALSE]}
                 \cup {[given |-> TRUE, codeGeneration |-> g] : g \in BOOLEAN}

\* the error texts of the generation service
UpstreamErrors == {"rate limit reached", "request timed out"}
\* what groq.chat.completions.create gives: a completion (its content may be
\* empty) or a rejection
GroqOutcomes ==
    {[ok |-> TRUE, text |-> t] : t \in {"completion", ""}}
        \cup {[ok |-> FALSE, text |-> t] : t \in UpstreamErrors}

CouldNotFind ==
    "I couldn't find relevant code in the repository to answer your question. Could you please rephrase or ask about another aspect of the codebase?"

NoChat ==
    [pc |-> "idle", variant |-> "chat", repoId |-> NoRepoId, chunksToRetrieve |-> 0,
     similarChunks |-> <<>>, retrieval |-> "none", groqCalls |-> 0, upstream |-> "",
     res |-> <<>>]

\* res.status(status).json(body) and the return
chatRespond(c, status, body) ==
    [c EXCEPT !.pc = "done", !.res = Append(@, [status |-> status, body |-> body])]

\* a request without chunks that is handed to the generation service all the same
answerAnyway(c, answer) ==
    [c EXCEPT !.pc = "groq", !.retrieval = "empty", !.groqCalls = @ + 1]

\* the 200 of a request that found no chunk to answer from: part_013 33-36,
\* 40-43, 63-66 (with chunkCount: 0); code-health.js 558-562 (without)
noChunks(c, answer) ==
    chatRespond([c EXCEPT !.retrieval = "empty"], 200,
                IF c.variant = "chat" THEN [answer |-> <<answer>>, chunkCount |-> 0]
                ELSE [answer |-> <<answer>>])

\* the handler's catch: part_013 82-90, code-health.js 573-580
chatFailed(c, message) ==
    chatRespond(c, 500,
                IF c.variant = "chat"
                THEN [answer |-> <<"I encountered an error while processing your question: ">>
                                     \o message
                                     \o <<". Please try again or ask a different question.">>,
                      error |-> TRUE, chunkCount |-> 0]
                ELSE [error |-> <<"Failed to process message">>, message |-> message])

\* part_013 7-51, code-health.js 524-553: up to the first await that does I/O
chatStart(vs, c, variant, method, question, enhancedContext, repoId) ==
    LET c1 == [c EXCEPT !.variant = variant, !.repoId = repoId,
                        !.chunksToRetrieve =
                            IF variant = "chat" /\ (question.codeGeneration \/ enhancedContext)
                            THEN 12 ELSE 5]
        got == getCollection(vs, repoId)
    IN  IF method # "POST"
        THEN [vs |-> vs, c |-> chatRespond(c, 405, [error |-> <<"Method not allowed">>])]
        ELSE IF ~question.given
        THEN [vs |-> vs, c |-> chatRespond(c, 400, [error |-> <<"Question is required">>])]
        ELSE IF repoId = NoRepoId
        THEN [vs |-> vs, c |-> chatRespond(c, 400, [error |-> <<"Repository ID is required">>])]
        ELSE IF got.threw
        THEN [vs |-> got.vs,
              c |-> IF variant = "chat"
                    THEN noChunks(c1, "I couldn't access the repository data. Please try processing the repository again.")
                    ELSE chatRespond(c1, 404,
                                     [error |-> <<"Repository not found or not processed">>,
                                      message |-> <<"Please process the repository first">>])]
        ELSE IF variant = "chat" /\ Len(got.vs[collectionName(repoId)].data) = 0
        THEN [vs |-> got.vs,
              c |-> noChunks(c1, "I don't have any code data for this repository yet. Try processing the repository again or ask a general question that doesn't require specific code context.")]
        ELSE [vs |-> got.vs, c |-> [c1 EXCEPT !.pc = "embedding"]]

\* part_013 51-71, code-health.js 553-565: generateEmbedding settles
chatOnEmbedding(vs, c, outcome) ==
    LET found == querySimilarChunks(vs, c.repoId, outcome.embedding, c.chunksToRetrieve)
    IN  IF ~outcome.ok
        THEN [vs |-> vs,
              c |-> chatFailed(c, <<"Failed to generate embedding: ", "service error">>)]
        ELSE IF found.out = Thrown
        THEN [vs |-> found.vs, c |-> chatFailed(c, <<"Failed to initialize collection">>)]
        ELSE IF Len(found.out.items) = 0
        THEN [vs |-> found.vs,
              c |-> noChunks(c, CouldNotFind)]
        ELSE [vs |-> found.vs,
              c |-> [c EXCEPT !.pc = "repoInfo", !.retrieval = "found",
                              !.similarChunks = found.out.items]]

\* part_013 71-75, code-health.js 565-568, groq.js 71-88: getRepositoryInfo
\* settles; queryGroq runs up to its completion call
chatOnRepoInfo(c, ok) ==
    IF ~ok
    THEN chatFailed(c, <<"Failed to fetch repository information: ", "service error">>)
    ELSE [c EXCEPT !.pc = "groq", !.groqCalls = @ + 1]

\* a queryGroq that calls the service again when the call is rejected
retryGroq(c, outcome) ==
    IF outcome.ok
    THEN chatRespond(c, 200,
                     [answer |-> <<IF outcome.text = ""
                                   THEN "Sorry, I could not generate a response."
                                   ELSE outcome.text>>,
                      chunkCount |-> Len(c.similarChunks)])
    ELSE IF c.groqCalls < 2
    THEN [c EXCEPT !.groqCalls = @ + 1]
    ELSE chatFailed([c EXCEPT !.upstream = outcome.text],
                    <<"Failed to get a response from Groq: ", outcome.text>>)

\* groq.js 88-103, part_013 75-81, code-health.js 568-572: the completion
\* call settles
chatOnGroq(c, outcome) ==
    IF outcome.ok
    THEN chatRespond(c, 200,
                     LET answer == <<IF outcome.text = ""
                                     THEN "Sorry, I could not generate a response."
                                     ELSE outcome.text>>
                     IN  IF c.variant = "chat"
                         THEN [answer |-> answer, chunkCount |-> Len(c.similarChunks)]
                         ELSE [answer |-> answer])
    ELSE chatFailed([c EXCEPT !.upstream = outcome.text],
                    <<"Failed to get a response from Groq: ", outcome.text>>)

----------------------------------------------------------------------------
(* The store interface, called by one caller at a time (SpecStore).        *)

\* embedded chunks handed to addChunksToVectorStore
CacheChunks == {[content |-> "doc", embedding |-> Vec(<<1, 0>>)]}
StoreChunks == [content : {"doc"}, embedding : Embeddings \ {Vec(<<0, 0>>)}]

\* query embeddings handed to querySimilarChunks
QueryEmbeddings == {Vec(<<1, 0>>), Vec(<<0, 0>>)}

RECURSIVE SumLen(_, _)
SumLen(vs, names) ==
    IF names = {} THEN 0
    ELSE LET n == CHOOSE x \in names : TRUE
         IN  Len(vs[n].data) + SumLen(vs, names \ {n})

TotalRecords(vs) == SumLen(vs, Names)

RECURSIVE CachedRecords(_)
\* the number of records the collection objects of the cache variant hold
CachedRecords(c) ==
    IF c.objects = <<>> THEN 0
    ELSE Len(c.objects[Len(c.objects)].data)
         + CachedRecords([c EXCEPT !.objects = SubSeq(@, 1, Len(@) - 1)])

NoCall == [op |-> "none", repoId |-> NoRepoId, queryEmbedding |-> Undefined,
           topK |-> 0, count |-> 0, out |-> Returned(<<>>)]

NoCos == [cos |-> Num(0), fallback |-> Num(0), distance |-> Num(0),
          fallbackDistance |-> Num(0), applied |-> FALSE]

StoreAdd(repoId, chunks) ==
    LET r == addChunksToVectorStore(vectorStore, repoId, chunks)
    IN  /\ TotalRecords(vectorStore) + Len(chunks) <= MaxRecords
        /\ vectorStore' = r.vs
        /\ lastCall' = [NoCall EXCEPT !.op = "add", !.repoId = repoId,
                                      !.count = Len(chunks),
                                      !.out = IF r.threw THEN Thrown ELSE Returned(<<>>)]
        /\ UNCHANGED <<chroma, cosGroup, embedGroup, ingestGroup, chunkGroup>>

StoreDelete(repoId) ==
    /\ vectorStore' = deleteRepositoryData(vectorStore, repoId)
    /\ lastCall' = [NoCall EXCEPT !.op = "delete", !.repoId = repoId]
    /\ UNCHANGED <<chroma, cosGroup, embedGroup, ingestGroup, chunkGroup>>

\* a caller's own getCollection(repoId)
StoreGet(repoId) ==
    LET r == getCollection(vectorStore, repoId)
    IN  /\ vectorStore' = r.vs
        /\ lastCall' = [NoCall EXCEPT !.op = "get", !.repoId = repoId,
                                      !.count = recordCount(r.vs, repoId),
                                      !.out = IF r.threw THEN Thrown ELSE Returned(<<>>)]
        /\ UNCHANGED <<chroma, cosGroup, embedGroup, ingestGroup, chunkGroup>>

\* a caller's own collection.query on the handle of an existing collection;
\* out.items are the results as collection.query returns them
CollectionQuery(repoId, queryEmbedding, nResults) ==
    LET data == vectorStore[collectionName(repoId)].data
    IN  /\ vectorStore[collectionName(repoId)].exists
        /\ lastCall' = [op |-> "collection.query", repoId |-> repoId,
                        queryEmbedding |-> queryEmbedding, topK |-> nResults,
                        count |-> Len(data),
                        out |-> Returned(collectionQuery(data, queryEmbedding, nResults))]
        /\ UNCHANGED <<vectorStore, chroma, cosGroup, embedGroup, ingestGroup, chunkGroup>>

\* count: the number of records repoId's collection holds when the call is made
StoreQuery(repoId, queryEmbedding, topK) ==
    LET r == querySimilarChunks(vectorStore, repoId, queryEmbedding, topK)
    IN  /\ vectorStore' = r.vs
        /\ lastCall' = [op |-> "query", repoId |-> repoId,
                        queryEmbedding |-> queryEmbedding, topK |-> topK,
                        count |-> recordCount(vectorStore, repoId), out |-> r.out]
        /\ UNCHANGED <<chroma, cosGroup, embedGroup, ingestGroup, chunkGroup>>

\* the calls of the client-and-cache variant; last is the latest of them,
\* with the repoId and the handle of a getCollection
Heartbeat(ok) ==
    /\ chroma.client = "pending"
    /\ chroma' = heartbeatSettled(chroma, ok)
    /\ UNCHANGED <<vectorStore, lastCall, cosGroup, embedGroup, ingestGroup, chunkGroup>>

CacheGet(repoId, up) ==
    LET r == cachedGetCollection(chroma, repoId, up)
    IN  /\ Len(r.c.objects) <= MaxCreated
        /\ chroma' = [r.c EXCEPT !.last = [op |-> "get", repoId |-> repoId,
                                           handle |-> r.handle, threw |-> r.threw]]
        /\ UNCHANGED <<vectorStore, lastCall, cosGroup, embedGroup, ingestGroup, chunkGroup>>

CacheAdd(repoId, chunks, answer) ==
    LET r == cachedAddChunks(chroma, repoId, chunks, answer)
    IN  /\ Len(r.c.objects) <= MaxCreated
        /\ CachedRecords(chroma) + Len(chunks) <= MaxRecords
        /\ chroma' = [r.c EXCEPT !.last = [NoChromaCall EXCEPT !.op = "add",
                                                               !.threw = r.threw]]
        /\ UNCHANGED <<vectorStore, lastCall, cosGroup, embedGroup, ingestGroup, chunkGroup>>

CacheDelete(repoId, up) ==
    LET r == cachedDelete(chroma, repoId, up)
    IN  /\ chroma' = [r.c EXCEPT !.last = [NoChromaCall EXCEPT !.op = "delete",
                                                               !.threw = r.threw]]
        /\ UNCHANGED <<vectorStore, lastCall, cosGroup, embedGroup, ingestGroup, chunkGroup>>

\* the parts of the model a specification does not use stay as they are here
StoreIdle == vectorStore = EmptyStore /\ lastCall = NoCall /\ chroma = NoChroma
CosIdle == cosIn = <<Undefined, Undefined>> /\ cosOut = NoCos
EmbedIdle == embedRun = NoBatch /\ hfLog = <<>>
IngestIdle == req = [r \in Runs |-> NoRequest] /\ chat = NoChat
ChunkIdle == chunker = NoChunker

StoreInit == StoreIdle /\ CosIdle /\ EmbedIdle /\ IngestIdle /\ ChunkIdle

\* the store in use (259-489)
MainNext ==
    \/ \E repoId \in RepoIds \cup {NoRepoId},
          chunks \in [1..1 -> StoreChunks] \cup [1..2 -> StoreChunks] :
           StoreAdd(repoId, chunks)
    \/ \E repoId \in RepoIds : StoreDelete(repoId)
    \/ \E repoId \in RepoIds \cup {NoRepoId} : StoreGet(repoId)
    \/ \E repoId \in RepoIds, e \in QueryEmbeddings, k \in 0..MaxK :
           CollectionQuery(repoId, e, k)
    \/ \E repoId \in RepoIds \cup {NoRepoId}, e \in QueryEmbeddings, k \in 0..MaxK :
           StoreQuery(repoId, e, k)

ChromaAnswers == {"ok", "unreached", "down", "strict"}

\* the client-and-cache variant (1-257)
CacheNext ==
    \/ \E ok \in BOOLEAN : Heartbeat(ok)
    \/ \E repoId \in RepoIds \cup {NoRepoId}, up \in BOOLEAN : CacheGet(repoId, up)
    \/ \E repoId \in RepoIds \cup {NoRepoId},
          chunks \in [1..1 -> CacheChunks] \cup [1..2 -> CacheChunks],
          answer \in ChromaAnswers :
           CacheAdd(repoId, chunks, answer)
    \/ \E repoId \in RepoIds \cup {NoRepoId}, up \in BOOLEAN : CacheDelete(repoId, up)

\* a process loads the module once: it runs one of the two variants
StoreNext ==
    \/ chroma = NoChroma /\ MainNext
    \/ vectorStore = EmptyStore /\ lastCall = NoCall /\ CacheNext

SpecStore == StoreInit /\ [][StoreNext]_vars

----------------------------------------------------------------------------
(* cosineSimilarity applied to one pair of vectors (SpecCos): the value of *)
(* both variants, and the distance a query reports for a collection whose  *)
(* only record carries vecB when the query embedding is vecA.              *)

\* src/lib/chromadb.js 24-52 and 204-227: the fallback store's query keeps
\* 1 - similarity as it is
fallbackDistance(similarity) ==
    IF similarity.k = "num" THEN Num(Unit - similarity.n) ELSE similarity

\* src/lib/chromadb.js 429-466 on a one-record collection
queryDistance(vecA, vecB) ==
    LET data == <<[id |-> 0, embedding |-> vecB, document |-> "doc"]>>
        vs == [EmptyStore EXCEPT ![collectionName(<<"o", "/", "c">>)] =
                                     [exists |-> TRUE, data |-> data]]
        r == querySimilarChunks(vs, <<"o", "/", "c">>, vecA, 1)
    IN  r.out.items[1].distance

CosApply ==
    /\ ~cosOut.applied
    /\ cosOut' = [cos |-> cosineSimilarity(cosIn[1], cosIn[2]),
                  fallback |-> cosineSimilarityFallback(cosIn[1], cosIn[2]),
                  distance |-> Num(queryDistance(cosIn[1], cosIn[2])),
                  fallbackDistance |->
                      fallbackDistance(cosineSimilarityFallback(cosIn[1], cosIn[2])),
                  applied |-> TRUE]
    /\ UNCHANGED <<storeGroup, embedGroup, ingestGroup, chunkGroup, cosIn>>

CosInit ==
    /\ StoreIdle /\ EmbedIdle /\ IngestIdle /\ ChunkIdle
    /\ cosIn \in AnyVectors \X AnyVectors
    /\ cosOut = NoCos

CosNext == CosApply

SpecCos == CosInit /\ [][CosNext]_vars

----------------------------------------------------------------------------
(* Claims about the store *)

Sorted(items) ==
    \A i \in 1..(Len(items) - 1) : items[i].distance <= items[i + 1].distance

\* C2: the sequence returned by querySimilarChunks is in non-decreasing
\* distance, also when a stored record has the direction of the query
\* (computed distance 0).
C2_RetrievalOrdering ==
    lastCall.op = "query" => Sorted(lastCall.out.items)

\* C6: querySimilarChunks on a repoId whose collection holds no record (or
\* that has no collection) returns the empty sequence and does not throw.
C6_EmptyCollectionSafety ==
    (lastCall.op = "query" /\ lastCall.count = 0) => lastCall.out = Returned(<<>>)

\* C6 witness: a query of an existing repository with no records was answered
\* while another collection holds records.
C6_Witness ==
    /\ lastCall.op = "query"
    /\ lastCall.repoId \in RepoIds
    /\ lastCall.count = 0
    /\ lastCall.out = Returned(<<>>)
    /\ TotalRecords(vectorStore) > 0

AllZero(vec) == vec.def /\ \A i \in DOMAIN vec.v : vec.v[i] = 0

\* all-zero, zero-length, missing, or of different lengths
Degenerate(vecA, vecB) ==
    \/ ~vecA.def \/ ~vecB.def
    \/ AllZero(vecA) \/ AllZero(vecB)
    \/ Len(vecA.v) # Len(vecB.v)

\* C7: for a degenerate pair cosineSimilarity returns exactly 0 and never
\* raises, in the store in use and in the in-memory fallback, and the query
\* result built from it has distance 1.
C7_CosineDegenerate ==
    (cosOut.applied /\ Degenerate(cosIn[1], cosIn[2])) =>
        /\ cosOut.cos = Num(0)
        /\ cosOut.fallback = Num(0)
        /\ cosOut.distance = Num(Unit)
        /\ cosOut.fallbackDistance = Num(Unit)

IsPrefix(s, t) == Len(s) <= Len(t) /\ SubSeq(t, 1, Len(s)) = s

\* C11: getCollection(repoId) is idempotent.  A call that finds no collection
\* under the repoId's name creates an empty one and touches nothing else; a
\* call that finds one returns it and leaves the whole store as it is; and no
\* call other than a delete removes a collection or any of its records, so
\* that a later getCollection finds the records intact.  In the
\* client-and-cache variant a call that returns yields the handle the cache
\* holds for the repoId, else the one the client holds under the repoId's key,
\* and creates an empty collection only when there is neither; it changes
\* nothing but the cache entry, and no call other than a delete takes a
\* record from a collection object or moves a cache entry that was set.
C11_GetCollectionIdempotent ==
    [][/\ (lastCall'.op = "get" /\ lastCall'.repoId \in RepoIds) =>
              LET name == collectionName(lastCall'.repoId)
              IN  /\ lastCall'.out = Returned(<<>>)
                  /\ vectorStore[name].exists => vectorStore' = vectorStore
                  /\ ~vectorStore[name].exists =>
                         vectorStore' = [vectorStore EXCEPT
                                            ![name] = [exists |-> TRUE, data |-> <<>>]]
       /\ lastCall'.op # "delete" =>
              \A name \in Names :
                  vectorStore[name].exists =>
                      /\ vectorStore'[name].exists
                      /\ IsPrefix(vectorStore[name].data, vectorStore'[name].data)
       /\ (chroma'.last.op = "get" /\ ~chroma'.last.threw) =>
              LET repoId == chroma'.last.repoId
                  key == clientKey(chroma, collectionName(repoId))
                  cached == chroma.collections[repoId]
                  known == IF cached # 0 THEN cached ELSE chroma.slots[key]
                  handle == chroma'.last.handle
              IN  /\ chroma'.collections = [chroma.collections EXCEPT ![repoId] = handle]
                  /\ known # 0 =>
                         /\ handle = known
                         /\ chroma'.objects = chroma.objects
                         /\ chroma'.slots = chroma.slots
                  /\ known = 0 =>
                         /\ handle = Len(chroma.objects) + 1
                         /\ chroma'.objects = Append(chroma.objects, newObject(chroma))
                         /\ chroma'.slots = [chroma.slots EXCEPT ![key] = handle]
       /\ chroma'.last.op # "delete" =>
              /\ \A i \in DOMAIN chroma.objects :
                     /\ i \in DOMAIN chroma'.objects
                     /\ IsPrefix(chroma.objects[i].data, chroma'.objects[i].data)
              /\ \A repoId \in RepoIds :
                     chroma.collections[repoId] # 0 =>
                         chroma'.collections[repoId] = chroma.collections[repoId]
      ]_vars

\* a getCollection has returned a collection that holds records
C11_Witness ==
    /\ lastCall.op = "get"
    /\ lastCall.repoId \in RepoIds
    /\ lastCall.count > 0
    /\ Len(vectorStore[collectionName(lastCall.repoId)].data) = lastCall.count

\* a getCollection of the client-and-cache variant has returned the handle of
\* a collection that holds records, with the ChromaClient and with the fallback
C11_WitnessCached ==
    /\ chroma.last.op = "get"
    /\ ~chroma.last.threw
    /\ chroma.client = "fallback"
    /\ chroma.objects[chroma.last.handle].data # <<>>

\* C26: collection isolation.  For any two distinct repository identifiers,
\* also two that differ only in characters replaced by "_", a call of the
\* store for one of them (getCollection, addChunksToVectorStore,
\* deleteRepositoryData, querySimilarChunks) leaves the collection of the
\* other as it is: it adds no record to it and removes none; and a query
\* for one reads a collection that is not the other's.
C26_CollectionIsolation ==
    [][\A a \in RepoIds, b \in RepoIds :
           (a # b /\ lastCall'.repoId = a /\ lastCall'.op \in {"get", "add", "delete", "query"})
               => /\ vectorStore'[collectionName(b)] = vectorStore[collectionName(b)]
                  /\ lastCall'.op = "query" =>
                         \/ lastCall'.out.items = <<>>
                         \/ collectionName(a) # collectionName(b)
      ]_vars

\* C12: insertion is append-only.  addChunksToVectorStore(repoId, chunks) with
\* n chunks makes the repoId's collection n records longer, its former
\* records stay unchanged at their places in front of the new ones, whatever
\* their ids, and no other collection changes.
C12_AppendOnly ==
    [][(lastCall'.op = "add" /\ lastCall'.out # Thrown) =>
           LET name == collectionName(lastCall'.repoId)
               old == vectorStore[name].data
               new == vectorStore'[name].data
           IN  /\ Len(new) = Len(old) + lastCall'.count
               /\ IsPrefix(old, new)
               /\ \A other \in Names \ {name} : vectorStore'[other] = vectorStore[other]
      ]_vars

\* an add has left two records with the same id in the collection
C12_Witness ==
    /\ lastCall.op = "add"
    /\ lastCall.out # Thrown
    /\ LET data == vectorStore[collectionName(lastCall.repoId)].data
       IN  \E i, j \in DOMAIN data : i < j /\ data[i].id = data[j].id

\* the distance of a stored record to the query embedding, 1 - similarity
recordDistance(queryEmbedding, record) ==
    Unit - cosineSimilarity(queryEmbedding, record.embedding).n

\* C13: top-k.  collection.query on a collection of n records with nResults
\* = k >= 0 returns exactly min(k, n) results, each one a record of the
\* collection with its distance, no record more often than it is stored, and
\* every record strictly closer to the query than a returned one is returned.
C13_TopK ==
    lastCall.op = "collection.query" =>
        LET data == vectorStore[collectionName(lastCall.repoId)].data
            res == lastCall.out.items
            dist(j) == recordDistance(lastCall.queryEmbedding, data[j])
            returned(d) == Cardinality({i \in DOMAIN res : res[i].distance = d})
            stored(d) == Cardinality({j \in DOMAIN data : dist(j) = d})
        IN  /\ Len(res) = Min(lastCall.topK, Len(data))
            /\ \A i \in DOMAIN res :
                   /\ \E j \in DOMAIN data :
                          /\ data[j].id = res[i].id
                          /\ data[j].document = res[i].document
                          /\ dist(j) = res[i].distance
                   /\ returned(res[i].distance) <= stored(res[i].distance)
                   /\ \A j \in DOMAIN data :
                          dist(j) < res[i].distance => returned(dist(j)) = stored(dist(j))

\* a query for fewer results than the collection holds has left out a record
\* that is strictly farther than the one it returned
C13_Witness ==
    /\ lastCall.op = "collection.query"
    /\ lastCall.topK > 0
    /\ Len(lastCall.out.items) = lastCall.topK
    /\ lastCall.topK < lastCall.count
    /\ LET data == vectorStore[collectionName(lastCall.repoId)].data
       IN  \E j \in DOMAIN data :
               recordDistance(lastCall.queryEmbedding, data[j])
                   > lastCall.out.items[1].distance

\* C17: a failure of the vector store is surfaced to the caller as an error.
\* When the store fails under addChunksToVectorStore or querySimilarChunks
\* (getCollection throws, as it does for a repoId that is not a string), the
\* call throws; a failed query does not return the empty list that a query
\* without matching chunks returns.
C17_StoreFailureSurfaced ==
    (lastCall.op \in {"add", "query"} /\ lastCall.repoId = NoRepoId) =>
        lastCall.out = Thrown

----------------------------------------------------------------------------
(* One batchProcessEmbeddings call on its own (SpecEmbed) *)

EmbedChunks == [content : {"a", "b"}]

BatchSettle(outcome) ==
    /\ embedRun.at = "call"
    /\ embedRun' = settleCall(embedRun, outcome)
    /\ hfLog' = Append(hfLog, [chunk |-> embedRun.chunks[embedRun.i + 1], ok |-> outcome.ok,
                               embedding |-> outcome.embedding])
    /\ UNCHANGED <<storeGroup, cosGroup, ingestGroup, chunkGroup>>

BatchDelay ==
    /\ embedRun.at = "delay"
    /\ embedRun' = afterDelay(embedRun)
    /\ UNCHANGED <<storeGroup, cosGroup, ingestGroup, chunkGroup, hfLog>>

EmbedInit ==
    /\ StoreIdle /\ CosIdle /\ IngestIdle /\ ChunkIdle
    /\ \E chunks \in SeqsUpTo(EmbedChunks, MaxBatch) : embedRun = startBatch(chunks)
    /\ hfLog = <<>>

EmbedNext ==
    \/ \E outcome \in EmbedOutcomes : BatchSettle(outcome)
    \/ BatchDelay

SpecEmbed == EmbedInit /\ [][EmbedNext]_vars

RECURSIVE Succeeded(_)
\* the chunks of the successful calls of a log, in order, each with its embedding
Succeeded(log) ==
    IF log = <<>> THEN <<>>
    ELSE LET rest == Succeeded(SubSeq(log, 1, Len(log) - 1))
             last == log[Len(log)]
         IN  IF last.ok
             THEN Append(rest, [content |-> last.chunk.content,
                                embedding |-> last.embedding])
             ELSE rest

\* C9: batchProcessEmbeddings never aborts on a failed embedding call: the calls
\* made so far are exactly one per chunk before index i, in input order; the
\* chunks kept are those whose call succeeded, in input order, each with its
\* embedding; and the call returns only after every chunk was attempted.
C9_BatchNeverAborts ==
    /\ Len(hfLog) = IF embedRun.at = "call" THEN embedRun.i ELSE Min(embedRun.i + 1, Len(embedRun.chunks))
    /\ \A n \in DOMAIN hfLog : hfLog[n].chunk = embedRun.chunks[n]
    /\ embedRun.embeddedChunks = Succeeded(hfLog)
    /\ Len(embedRun.embeddedChunks) <= Len(embedRun.chunks)
    /\ embedRun.at = "returned" => Len(hfLog) = Len(embedRun.chunks)

\* C9 witness: a call returned after a failed embedding call was followed by
\* a successful one.
C9_Witness ==
    /\ embedRun.at = "returned"
    /\ \E m, n \in DOMAIN hfLog : m < n /\ ~hfLog[m].ok /\ hfLog[n].ok

\* C10: inside one batchProcessEmbeddings call, when an embedding call settles
\* (success or failure) the 100 ms delay follows unless the item was the last
\* one, and never follows the last item.
C10_Pacing ==
    [][(embedRun.at = "call" /\ embedRun' # embedRun) =>
           IF embedRun.i < Len(embedRun.chunks) - 1
           THEN embedRun'.at = "delay"
           ELSE embedRun'.at # "delay"]_vars

----------------------------------------------------------------------------
(* Requests handled one after the other (SpecSeq): a request arrives only  *)
(* when no other one is being handled, and request 2 after request 1.      *)

Apply(r, w) ==
    /\ vectorStore' = w.vs
    /\ req' = [req EXCEPT ![r] = w.q]
    /\ UNCHANGED <<lastCall, chroma, chat, cosGroup, embedGroup, chunkGroup>>

Start(r, method, url) ==
    /\ req[r].pc = "idle"
    /\ Apply(r, [vs |-> vectorStore, q |-> start(req[r], method, url)])

RepoInfoSettle(r, ok) ==
    /\ req[r].pc = "repoInfo"
    /\ Apply(r, onRepoInfo(vectorStore, req[r], ok))

ListingSettle(r, outcome) ==
    /\ req[r].pc = "listing"
    /\ Apply(r, onListing(vectorStore, req[r], outcome))

FetchSettle(r, outcome) ==
    /\ req[r].pc = "fetch"
    /\ Apply(r, onFetch(vectorStore, req[r], r, outcome))

EmbedSettle(r, outcome) ==
    /\ req[r].pc = "embed"
    /\ Apply(r, afterEmbed(vectorStore,
                           [req[r] EXCEPT !.embedRun = settleCall(@, outcome)]))

DelaySettle(r) ==
    /\ req[r].pc = "delay"
    /\ Apply(r, afterEmbed(vectorStore, [req[r] EXCEPT !.embedRun = afterDelay(@)]))

SeqStart(r, method, url) ==
    /\ \A o \in Runs : req[o].pc \in {"idle", "done"}
    /\ \A o \in Runs : o < r => req[o].pc = "done"
    /\ Start(r, method, url)

SeqInit == StoreIdle /\ CosIdle /\ EmbedIdle /\ IngestIdle /\ ChunkIdle

SeqNext ==
    \E r \in Runs :
        \/ \E method \in Methods, url \in Urls : SeqStart(r, method, url)
        \/ \E ok \in BOOLEAN : RepoInfoSettle(r, ok)
        \/ \E outcome \in ListingOutcomes : ListingSettle(r, outcome)
        \/ \E outcome \in FetchOutcomes : FetchSettle(r, outcome)
        \/ \E outcome \in IngestOutcomes : EmbedSettle(r, outcome)
        \/ DelaySettle(r)

SpecSeq == SeqInit /\ [][SeqNext]_vars

\* the collection of repoId holds the chunks run r embedded, as its records
\* chunk_0, chunk_1, ... in order, and nothing else
HoldsExactly(repoId, r) ==
    LET data == vectorStore[collectionName(repoId)].data
        chunks == req[r].allChunks
    IN  /\ Len(data) = Len(chunks)
        /\ \A k \in DOMAIN data :
               /\ data[k].id = k - 1
               /\ data[k].document = chunks[k].content
               /\ data[k].embedding = chunks[k].embedding
               /\ data[k].document[1] = r

\* both runs are over and were for the same repository identifier
RanTwice ==
    /\ req[1].pc = "done" /\ req[2].pc = "done"
    /\ req[1].repoId # NoRepoId
    /\ req[1].repoId = req[2].repoId

ZeroListing(r) ==
    /\ req[r].pc = "listing" /\ req'[r].pc # "listing"
    /\ Len(req'[r].files) = 0

\* C8 as stated: a listing without files is answered by exactly one response,
\* which carries fileCount 0 and the no-supported-files message.
C8_Original ==
    [][\A r \in Runs : ZeroListing(r) =>
           /\ req'[r].pc = "done" /\ Len(req'[r].res) = 1
           /\ "fileCount" \in DOMAIN req'[r].res[1].body
           /\ req'[r].res[1].body.fileCount = 0]_vars

\* C8: a listing without files is answered by exactly one response: status
\* 400 with the error "No supported code files found in the repository" and
\* no fileCount; the handler ends there, without an unhandled error.
C8_ZeroFiles ==
    [][\A r \in Runs : ZeroListing(r) =>
           /\ req'[r].pc = "done"
           /\ req'[r].res = <<[status |-> 400,
                               body |-> [error |-> "No supported code files found in the repository"]]>>]_vars

\* C8 witness: a run whose listing had no file has answered.
C8_Witness ==
    \E r \in Runs :
        /\ req[r].pc = "done"
        /\ req[r].res = <<[status |-> 400,
                           body |-> [error |-> "No supported code files found in the repository"]]>>

----------------------------------------------------------------------------
(* One request on its own (SpecRun), for a repository of any of the        *)
(* listings: short, partly unlistable, or longer than a batch.             *)

RunFetchSettle(r, outcome) ==
    /\ req[r].pc = "fetch"
    /\ outcome \in fetchable(req[r])
    /\ FetchSettle(r, outcome)

RunInit == StoreIdle /\ CosIdle /\ EmbedIdle /\ IngestIdle /\ ChunkIdle

RunNext ==
    \/ \E method \in Methods, url \in Urls : Start(1, method, url)
    \/ \E ok \in BOOLEAN : RepoInfoSettle(1, ok)
    \/ \E outcome \in ListingOutcomes \cup PartialListings \cup LongListings :
           ListingSettle(1, outcome)
    \/ \E outcome \in FetchOutcomes : RunFetchSettle(1, outcome)
    \/ \E outcome \in IngestOutcomes : EmbedSettle(1, outcome)
    \/ DelaySettle(1)

SpecRun == RunInit /\ [][RunNext]_vars

\* the response that ends a run
Status(q) == q.res[Len(q.res)].status

\* the step of run r goes on with the files: to the next file of the batch,
\* to the embedding of the batch's chunks, to the first file of the next
\* batch, or past the last batch to the end of the run, Indexed if a chunk
\* was embedded and "no chunks" if none was
GoesOn(r) ==
    LET q == req[r]
        n == req'[r]
        lastFile == q.pc # "fetch" \/ q.j = Len(fileBatch(q))
        lastBatch == q.i + MAX_FILES_PER_BATCH >= Len(limitedFiles(q))
        \* the batch is over: no chunk of it is left behind
        batchOver ==
            IF q.pc = "fetch"
            THEN q.processedFiles = <<>> /\ n.allChunks = q.allChunks
            ELSE /\ IsPrefix(q.allChunks \o q.embedRun.embeddedChunks, n.allChunks)
                 /\ Len(n.allChunks) <= Len(q.allChunks) + Len(q.embedRun.chunks)
    IN  \/ /\ q.pc = "fetch" /\ ~lastFile
           /\ n.pc = "fetch" /\ n.i = q.i /\ n.j = q.j + 1
           /\ IsPrefix(q.processedFiles, n.processedFiles)
           /\ n.allChunks = q.allChunks
        \/ /\ lastFile
           /\ n.pc \in {"embed", "delay"} /\ n.i = q.i
           /\ IsPrefix(q.processedFiles, n.embedRun.chunks)
           /\ n.allChunks = q.allChunks
        \/ /\ lastFile /\ ~lastBatch
           /\ n.pc = "fetch" /\ n.i = q.i + MAX_FILES_PER_BATCH /\ n.j = 1
           /\ batchOver
        \/ /\ lastFile /\ lastBatch
           /\ n.pc = "done" /\ Len(n.res) = 1
           /\ batchOver
           /\ IF Len(n.allChunks) > 0
              THEN Status(n) = 200 /\ HoldsExactly(q.repoId, r)'
              ELSE Status(n) = 400

\* C14: a fetch or chunking error on one file never aborts ingestion.
\* Whatever a download or the chunking of a file gives, and whatever an
\* embedding call gives, the run goes on with the remaining files of the
\* batch and with the later batches, every chunk made is handed to the
\* embedding, and the run ends Indexed (200, the collection holding the
\* embedded chunks) as long as at least one chunk was embedded.
C14_FileErrorsNeverAbort ==
    [][\A r \in Runs :
           (req[r].pc \in {"fetch", "embed", "delay"} /\ req'[r] # req[r]) => GoesOn(r)]_vars

\* a run over more files than a batch, of which files 2 to 20 could not be
\* downloaded, has ended Indexed with a chunk of the first file of the
\* second batch
C14_Witness ==
    \E r \in Runs :
        /\ req[r].pc = "done"
        /\ Status(req[r]) = 200
        /\ req[r].res[1].body.processedFiles > MAX_FILES_PER_BATCH
        /\ \E k \in DOMAIN req[r].allChunks :
               req[r].allChunks[k].content[2] = MAX_FILES_PER_BATCH + 1
        /\ HoldsExactly(req[r].repoId, r)

\* C15: a listing call that errors, for the repository root or for a
\* subdirectory, is fatal: the run ends with one response, the 500 of the
\* handler's catch with the error, never Indexed and not the 400 of a
\* listing without supported files.
C15_ListingErrorFatal ==
    \A r \in Runs :
        req[r].listingFailed =>
            /\ req[r].pc = "done"
            /\ Len(req[r].res) = 1
            /\ Status(req[r]) = 500

\* the file (its place in the listing) a chunk was made of
FileOf(chunk) == chunk.content[2]

\* C22: batch ordering in one run.  Files are fetched in listing order in
\* windows of at most MAX_FILES_PER_BATCH; while a file of a window is being
\* fetched no embedding call is in flight or pending, every call for the
\* chunks of the earlier windows has been made and has settled, and the
\* chunks held come from the files before it; the chunks being embedded are
\* those of one window; and the store holds no record of a run that has not
\* ended, so that no record is inserted before the embedding of the last
\* window has completed.
C22_BatchOrdering ==
    \A r \in Runs :
        LET q == req[r]
        IN  /\ q.pc = "fetch" =>
                /\ q.i % MAX_FILES_PER_BATCH = 0
                /\ q.j \in 1..Len(fileBatch(q))
                /\ Len(fileBatch(q)) <= MAX_FILES_PER_BATCH
                /\ fileBatch(q)[q.j] = q.files[q.i + q.j]
                /\ q.embedRun.at = "returned"
                /\ q.embedRun.i = Len(q.embedRun.chunks)
                /\ \A k \in DOMAIN q.allChunks : FileOf(q.allChunks[k]) <= q.i
                /\ \A k \in DOMAIN q.processedFiles :
                       FileOf(q.processedFiles[k]) \in (q.i + 1)..(q.i + q.j - 1)
            /\ q.pc \in {"embed", "delay"} =>
                /\ q.embedRun.at = IF q.pc = "embed" THEN "call" ELSE "delay"
                /\ q.embedRun.chunks = q.processedFiles
                /\ \A k \in DOMAIN q.allChunks : FileOf(q.allChunks[k]) <= q.i
                /\ \A k \in DOMAIN q.processedFiles :
                       FileOf(q.processedFiles[k]) \in
                           (q.i + 1)..(q.i + MAX_FILES_PER_BATCH)
            /\ q.pc # "done" =>
                \A name \in Names : \A k \in DOMAIN vectorStore[name].data :
                    vectorStore[name].data[k].document[1] # r

\* a file of the second window is being fetched, after the chunks of the
\* first window were embedded
C22_Witness ==
    \E r \in Runs :
        /\ req[r].pc = "fetch"
        /\ req[r].i = MAX_FILES_PER_BATCH
        /\ Len(req[r].embedRun.chunks) > 0
        /\ Len(req[r].allChunks) > 0

----------------------------------------------------------------------------
(* Requests handled concurrently (Spec): the handler takes no lock, so a   *)
(* request arrives whatever the other one is doing, and the steps of the   *)
(* two interleave at their await points.  Requests are numbered in their   *)
(* order of arrival.                                                       *)

Arrive(r, method, url) ==
    /\ \A o \in Runs : o < r => req[o].pc # "idle"
    /\ Start(r, method, url)

Init == StoreIdle /\ CosIdle /\ EmbedIdle /\ IngestIdle /\ ChunkIdle

\* the files of the repositories ingested concurrently make one chunk at most
SmallFiles == {outcome \in FetchOutcomes : outcome.chunks <= 1}

Next ==
    \E r \in Runs :
        \/ \E method \in Methods, url \in Urls : Arrive(r, method, url)
        \/ \E ok \in BOOLEAN : RepoInfoSettle(r, ok)
        \/ \E outcome \in ListingOutcomes : ListingSettle(r, outcome)
        \/ \E outcome \in SmallFiles : FetchSettle(r, outcome)
        \/ \E outcome \in IngestOutcomes : EmbedSettle(r, outcome)
        \/ DelaySettle(r)

Spec == Init /\ [][Next]_vars

\* the records a run's addChunksToVectorStore makes of its chunks
recordsOf(chunks) ==
    [k \in DOMAIN chunks |-> [id |-> k - 1, embedding |-> chunks[k].embedding,
                              document |-> chunks[k].content]]

\* C30: a run fetches at most the first MAX_FILES = 40 files of the listing,
\* in two windows of at most 20: the file it fetches is one of them, no
\* chunk it holds and no record of the store comes from a later file, and
\* the processedFiles of the success response is min(number of files
\* listed, 40), whatever the fetches gave.
C30_FileLimit ==
    /\ [](/\ req[1].pc = "fetch" =>
                /\ fileBatch(req[1])[req[1].j] = req[1].files[req[1].i + req[1].j]
                /\ req[1].i + req[1].j <= MAX_FILES
                /\ req[1].i \in {0, MAX_FILES_PER_BATCH}
                /\ req[1].j <= MAX_FILES_PER_BATCH
          /\ \A n \in DOMAIN req[1].allChunks : FileOf(req[1].allChunks[n]) <= MAX_FILES
          /\ \A n \in DOMAIN req[1].processedFiles :
                 FileOf(req[1].processedFiles[n]) <= MAX_FILES
          /\ \A name \in Names : \A n \in DOMAIN vectorStore[name].data :
                 vectorStore[name].data[n].document[2] <= MAX_FILES)
    /\ [][(req[1].pc # "done" /\ req'[1].pc = "done" /\ req'[1].res[1].status = 200)
              => req'[1].res[1].body.processedFiles = Min(Len(req[1].files), MAX_FILES)
         ]_vars

\* a listing of more than 40 files: the run has ended in success, reports 40
\* files and has a record of a file of the second window
C30_Witness ==
    /\ req[1].pc = "done"
    /\ req[1].res[1].status = 200
    /\ req[1].res[1].body.processedFiles = MAX_FILES
    /\ \E name \in Names : \E n \in DOMAIN vectorStore[name].data :
           vectorStore[name].data[n].document[2] > MAX_FILES_PER_BATCH

SecondInsert(r, o) ==
    /\ r # o
    /\ req[r].pc = "done" /\ Status(req[r]) = 200
    /\ req[o].pc \in {"fetch", "embed", "delay"}
    /\ req[o].repoId = req[r].repoId
    /\ HoldsExactly(req[r].repoId, r)
    /\ req'[o].pc = "done" /\ Status(req'[o]) = 200

\* C20: two ingestion runs for the same repoId are not mutually excluded.
\* When both runs have executed deleteRepositoryData before either executes
\* addChunksToVectorStore, the second insert appends to the first: the
\* collection holds the records of both runs, its record count is the sum
\* of the runs' chunk counts, and every id chunk_<i> that both runs
\* generated occurs twice.
C20_RunsNotExcluded ==
    [][\A r, o \in Runs :
           SecondInsert(r, o) =>
               LET data == vectorStore'[collectionName(req[r].repoId)].data
                   first == req[r].allChunks
                   second == req'[o].allChunks
               IN  /\ data = recordsOf(first) \o recordsOf(second)
                   /\ Len(data) = Len(first) + Len(second)
                   /\ \A i \in 0..(Min(Len(first), Len(second)) - 1) :
                          Cardinality({k \in DOMAIN data : data[k].id = i}) = 2]_vars

\* both runs for the same repoId have ended Indexed and the collection holds
\* the records of both, chunk_0 twice
C20_Witness ==
    /\ RanTwice
    /\ Status(req[1]) = 200 /\ Status(req[2]) = 200
    /\ LET data == vectorStore[collectionName(req[1].repoId)].data
       IN  /\ Len(data) = Len(req[1].allChunks) + Len(req[2].allChunks)
           /\ \E k \in DOMAIN data : data[k].document[1] = 1
           /\ \E k \in DOMAIN data : data[k].document[1] = 2
           /\ Cardinality({k \in DOMAIN data : data[k].id = 0}) = 2

----------------------------------------------------------------------------
(* One chat request (SpecChat), while other callers insert into the store  *)
(* and delete from it.                                                     *)

ChatApply(w) ==
    /\ vectorStore' = w.vs
    /\ chat' = w.c
    /\ UNCHANGED <<lastCall, chroma, req, cosGroup, embedGroup, chunkGroup>>

ChatArrive(variant, method, question, enhancedContext, repoId) ==
    /\ chat.pc = "idle"
    /\ ChatApply(chatStart(vectorStore, chat, variant, method, question,
                           enhancedContext, repoId))

ChatEmbeddingSettle(outcome) ==
    /\ chat.pc = "embedding"
    /\ ChatApply(chatOnEmbedding(vectorStore, chat, outcome))

ChatRepoInfoSettle(ok) ==
    /\ chat.pc = "repoInfo"
    /\ ChatApply([vs |-> vectorStore, c |-> chatOnRepoInfo(chat, ok)])

ChatGroqSettle(outcome) ==
    /\ chat.pc = "groq"
    /\ ChatApply([vs |-> vectorStore, c |-> chatOnGroq(chat, outcome)])

\* the chunks an ingestion inserts while the request is handled
IngestedChunks == [content : {"doc"}, embedding : {Vec(<<1, 0>>)}]

\* the addChunksToVectorStore of an ingestion (process-repo.js 94)
OtherInsert(repoId, chunks) ==
    /\ TotalRecords(vectorStore) + Len(chunks) <= MaxRecords
    /\ vectorStore' = addChunksToVectorStore(vectorStore, repoId, chunks).vs
    /\ UNCHANGED <<lastCall, chroma, cosGroup, embedGroup, ingestGroup, chunkGroup>>

\* the deleteRepositoryData of an ingestion (process-repo.js 31)
OtherDelete(repoId) ==
    /\ vectorStore' = deleteRepositoryData(vectorStore, repoId)
    /\ UNCHANGED <<lastCall, chroma, cosGroup, embedGroup, ingestGroup, chunkGroup>>

ChatInit == StoreIdle /\ CosIdle /\ EmbedIdle /\ IngestIdle /\ ChunkIdle

ChatNext ==
    \/ \E variant \in ChatVariants, method \in Methods, question \in Questions,
          enhancedContext \in BOOLEAN, repoId \in RepoIds \cup {NoRepoId} :
           ChatArrive(variant, method, question, enhancedContext, repoId)
    \/ \E outcome \in EmbedOutcomes : ChatEmbeddingSettle(outcome)
    \/ \E ok \in BOOLEAN : ChatRepoInfoSettle(ok)
    \/ \E outcome \in GroqOutcomes : ChatGroqSettle(outcome)
    \/ \E repoId \in RepoIds, chunks \in [1..1 -> IngestedChunks] \cup [1..2 -> IngestedChunks] :
           OtherInsert(repoId, chunks)
    \/ \E repoId \in RepoIds : OtherDelete(repoId)

SpecChat == ChatInit /\ [][ChatNext]_vars

\* the request is over and the handler found no chunk to answer from
ZeroRetrieval == chat.pc = "done" /\ chat.retrieval = "empty"

\* the body of the response is a message for the user and not an error
UserMessage(body) ==
    /\ "answer" \in DOMAIN body
    /\ "error" \notin DOMAIN body

MessageOf(body) == IF "answer" \in DOMAIN body THEN body.answer ELSE body.message

\* C19: for each chat request the generation service is called at most once;
\* a call that fails is not retried, and the request ends with exactly one
\* response, the 500 of the handler's catch, whose message contains the
\* failure text of the service.
C19_GenerateOnce ==
    /\ chat.groqCalls <= 1
    /\ Len(chat.res) <= 1
    /\ chat.pc = "done" => Len(chat.res) = 1
    /\ chat.upstream # "" =>
           /\ chat.pc = "done"
           /\ chat.groqCalls = 1
           /\ Status(chat) = 500
           /\ chat.upstream \in Range(MessageOf(chat.res[1].body))

\* the generation call of a request has failed
C19_Witness ==
    /\ chat.pc = "done"
    /\ chat.groqCalls = 1
    /\ chat.upstream \in UpstreamErrors

----------------------------------------------------------------------------
(* Requests handled one after the other while a client asks for the chunks *)
(* of a repository (SpecServe): querySimilarChunks does no I/O, so a query *)
(* runs whole at any await point of a run.                                 *)

\* the repositories ingested: "o/a-b" and "o/a_b"
ServeUrls == {url \in Urls : ~parseGitHubUrl(url).threw}

ServeStart(r, url) == SeqStart(r, "POST", url)

\* src/lib/chromadb.js 429-466, called for the repoId of a request
ServeQuery(repoId) == StoreQuery(repoId, Vec(<<1, 0>>), MaxK)

ServeInit == StoreIdle /\ CosIdle /\ EmbedIdle /\ IngestIdle /\ ChunkIdle

ServeNext ==
    \/ \E r \in Runs :
        \/ \E url \in ServeUrls : ServeStart(r, url)
        \/ \E ok \in BOOLEAN : RepoInfoSettle(r, ok)
        \/ \E outcome \in ListingOutcomes : ListingSettle(r, outcome)
        \/ \E outcome \in SmallFiles : FetchSettle(r, outcome)
        \/ \E outcome \in IngestOutcomes : EmbedSettle(r, outcome)
        \/ DelaySettle(r)
    \/ \E r \in Runs : req[r].repoId # NoRepoId /\ ServeQuery(req[r].repoId)

SpecServe == ServeInit /\ [][ServeNext]_vars

\* a run is in progress: started, and neither Indexed nor Failed
InProgress(q) == q.pc \in {"repoInfo", "listing", "fetch", "embed", "delay"}

\* C21: while an ingestion run for a repoId is in progress, a query for that
\* repoId at any of its await points returns no chunks: neither the records
\* of the previous run nor a part of the records the run inserts.
C21_QueryDuringRun ==
    [][\A r \in Runs :
           (/\ lastCall' # lastCall
            /\ lastCall'.op = "query"
            /\ InProgress(req[r])
            /\ lastCall'.repoId = req[r].repoId) =>
               lastCall'.out = Returned(<<>>)]_vars

\* the embedding calls a request has in flight
InFlight(q) == IF q.pc = "embed" /\ q.embedRun.at = "call" THEN {q.embedRun.i} ELSE {}

\* C24 as stated: at most one embedding call is in flight at any time, in
\* one batchProcessEmbeddings call and across the requests the process
\* serves concurrently.
C24_Original ==
    Cardinality({r \in Runs : InFlight(req[r]) # {}}) <= 1

\* C24: inside one batchProcessEmbeddings call at most one embedding call is
\* in flight: a call starts only in a step in which the request has no other
\* call in flight, which is the first call of a batch after the fetch of its
\* last file, or the call of chunk i+1 in the step in which the call of
\* chunk i settles with a failure, or when the delay after it has passed.
\* Requests served concurrently each have their own call in flight.
C24_OneCallPerBatch ==
    [][\A r \in Runs :
           LET b == req[r].embedRun
               n == req'[r].embedRun
           IN  /\ (req'[r].pc = "embed") = (InFlight(req'[r]) # {})
               /\ (InFlight(req'[r]) # {} /\ (InFlight(req[r]) # InFlight(req'[r]) \/ n.chunks # b.chunks)) =>
                      \/ /\ req[r].pc = "fetch"
                         /\ n.i = 0
                      \/ /\ req[r].pc = "embed" /\ InFlight(req[r]) = {b.i}
                         /\ n.chunks = b.chunks /\ n.i = b.i + 1
                         /\ n.embeddedChunks = b.embeddedChunks
                      \/ /\ req[r].pc = "delay" /\ InFlight(req[r]) = {}
                         /\ n.chunks = b.chunks /\ n.i = b.i + 1
                         /\ Len(n.embeddedChunks) = Len(b.embeddedChunks)]_vars

\* the second call of a batch is in flight while the other request has a
\* call in flight
C24_Witness ==
    \E r, o \in Runs :
        /\ r # o
        /\ InFlight(req[r]) = {1}
        /\ InFlight(req[o]) # {}

----------------------------------------------------------------------------
(* One chunkCodeFile call on its own (SpecChunk): a file of a few lines    *)
(* of its language, chunked with a small maxTokens or with the default.    *)

DefaultMaxTokens == 400

blankLine == <<>>
jsImport == kwImport \o <<"a">>
jsFoo == kwFunction \o <<" ", "f", "o", "o", "(", ")", "{">>
jsBody == <<" ", "x", " ", "y">>
jsStmt == <<"a", " ", "b">>
closeBrace == <<"}">>
javaClassFoo == kwClass \o <<" ", "F", "o", "o", " ", "{">>
javaField == <<" ", "i", "n", "t", " ", "f", ";">>
javaMethodBar == <<" ">> \o kwVoid \o <<"b", "a", "r", "(", ")", " ", "{">>
javaMethodClose == <<" ", "}">>
textLine == <<"a">>

\* the lines a file of each extension is made of
LinesOf(extension) ==
    CASE extension = "js" -> {blankLine, jsImport, jsFoo, jsBody, jsStmt, closeBrace}
      [] extension = "java" ->
             {blankLine, javaClassFoo, javaField, javaMethodBar, javaMethodClose, closeBrace}
      [] OTHER -> {blankLine, textLine, jsStmt}

Extensions == {"js", "java", "txt"}

\* content.split('\n') has at least one line
Files(extension) == UNION {[1..n -> LinesOf(extension)] : n \in 1..MaxLines}

TokenLimits == (1..MaxTokens) \cup {DefaultMaxTokens}

StepJSTS ==
    /\ chunker.pc = "scan" /\ chunker.lang = "javascript" /\ chunker.i < Len(chunker.lines)
    /\ chunker' = stepJSTS(chunker)
    /\ UNCHANGED <<storeGroup, cosGroup, embedGroup, ingestGroup>>

StepJava ==
    /\ chunker.pc = "scan" /\ chunker.lang = "java" /\ chunker.i < Len(chunker.lines)
    /\ chunker' = stepJava(chunker)
    /\ UNCHANGED <<storeGroup, cosGroup, embedGroup, ingestGroup>>

StepBySize ==
    /\ chunker.pc = "scan" /\ chunker.lang = "text" /\ chunker.i < Len(chunker.lines)
    /\ chunker' = stepBySize(chunker)
    /\ UNCHANGED <<storeGroup, cosGroup, embedGroup, ingestGroup>>

FinalFlush ==
    /\ chunker.pc = "scan" /\ chunker.i = Len(chunker.lines)
    /\ chunker' = CASE chunker.lang = "javascript" -> flushJSTS(chunker)
                    [] chunker.lang = "java" -> flushJava(chunker)
                    [] OTHER -> flushBySize(chunker)
    /\ UNCHANGED <<storeGroup, cosGroup, embedGroup, ingestGroup>>

ChunkInit ==
    /\ StoreIdle /\ CosIdle /\ EmbedIdle /\ IngestIdle
    /\ \E extension \in Extensions, maxTokens \in TokenLimits :
           \E lines \in Files(extension) :
               chunker = chunkCodeFile(lines, extension, maxTokens)

ChunkNext == StepJSTS \/ StepJava \/ StepBySize \/ FinalFlush

SpecChunk == ChunkInit /\ [][ChunkNext]_vars

\* the chunk starts with a declaration line of its language and holds no other
StartsDeclaration(lang, line) ==
    CASE lang = "javascript" -> jsDeclaration(line)
      [] lang = "java" -> javaMethodLine(line) \/ match(line, reJavaClass).matched
      [] OTHER -> FALSE

OneDeclaration(lang, chunk) ==
    /\ chunk.body # <<>>
    /\ StartsDeclaration(lang, chunk.body[1])
    /\ \A n \in 2..Len(chunk.body) : ~StartsDeclaration(lang, chunk.body[n])

\* C3: every chunk emitted before the final flush of the file has
\* estimateTokens(chunk.content) <= maxTokens, unless it is exactly one
\* declaration.
C3_TokenBound ==
    chunker.pc = "scan" =>
        \A k \in DOMAIN chunker.chunks :
            \/ estimateTokens(content(chunker.chunks[k])) <= chunker.maxTokens
            \/ OneDeclaration(chunker.lang, chunker.chunks[k])

RECURSIVE Leading(_, _)
\* the number of leading lines of a file that are import, export, package or
\* blank lines
Leading(lines, i) ==
    IF i > Len(lines) THEN 0
    ELSE IF \/ jsImportLine(lines[i])
            \/ startsWith(trim(lines[i]), kwPackage)
            \/ IsBlank(lines[i])
    THEN 1 + Leading(lines, i + 1)
    ELSE 0

RECURSIVE NonBlank(_)
NonBlank(lines) ==
    IF lines = <<>> THEN <<>>
    ELSE IF IsBlank(Head(lines)) THEN NonBlank(Tail(lines))
    ELSE <<Head(lines)>> \o NonBlank(Tail(lines))

RECURSIVE Bodies(_)
\* the non-preamble contents of a sequence of chunks, one after the other
Bodies(chunks) == IF chunks = <<>> THEN <<>> ELSE Head(chunks).body \o Bodies(Tail(chunks))

RECURSIVE IsSubseq(_, _)
\* the lines of a appear in b, in the order of a
IsSubseq(a, b) ==
    IF a = <<>> THEN TRUE
    ELSE IF b = <<>> THEN FALSE
    ELSE IF Head(a) = Head(b) THEN IsSubseq(Tail(a), Tail(b))
    ELSE IsSubseq(a, Tail(b))

\* the non-blank lines of the file after its leading import lines
BodyLines(c) ==
    IF c.lang = "text" THEN NonBlank(c.lines)
    ELSE NonBlank(SubSeq(c.lines, Leading(c.lines, 1) + 1, Len(c.lines)))

\* C4: once a file is chunked, every non-blank body line of it is in the
\* non-preamble content of the chunks, in file order.
C4_Coverage ==
    chunker.pc = "done" => IsSubseq(BodyLines(chunker), NonBlank(Bodies(chunker.chunks)))

\* a block of import lines, then function foo(){, lines inside it, and }
ImportsThenFoo(lines) ==
    \E n \in 1..(Len(lines) - 2) :
        /\ \A k \in 1..n : lines[k] = jsImport
        /\ lines[n + 1] = jsFoo
        /\ \A k \in (n + 2)..(Len(lines) - 1) : lines[k] \in {jsBody, jsStmt}
        /\ lines[Len(lines)] = closeBrace

\* C5: a JavaScript file made of import lines and one top-level function foo
\* is chunked into exactly one chunk, named foo, whose content starts with
\* the import lines.
C5_ImportsAndFoo ==
    (/\ chunker.pc = "done" /\ chunker.lang = "javascript"
     /\ chunker.maxTokens = DefaultMaxTokens
     /\ ImportsThenFoo(chunker.lines)) =>
        /\ Len(chunker.chunks) = 1
        /\ chunker.chunks[1].name = <<"f", "o", "o">>
        /\ startsWith(content(chunker.chunks[1]),
                      Text(SubSeq(chunker.lines, 1, Leading(chunker.lines, 1))))

----------------------------------------------------------------------------
(* One chunkCodeFile call on a Python file (SpecPy) *)

pyImport == kwImport \o <<"a">>
pyDefF == kwDef \o <<" ", "f", "(", ")", ":">>
pyClassC == kwClass \o <<" ", "C", ":">>
pyBody == <<" ", " ", "x">>
pyMethod == <<" ", " ">> \o kwDef \o <<" ", "g", "(", ")", ":">>
pyStmt == <<"a">>

PyLines == {blankLine, pyImport, pyDefF, pyClassC, pyBody, pyMethod, pyStmt}

PyFiles == UNION {[1..n -> PyLines] : n \in 1..MaxLines}

StepPython ==
    /\ chunker.pc = "scan" /\ chunker.lang = "python" /\ chunker.i < Len(chunker.lines)
    /\ chunker' = stepPython(chunker)
    /\ UNCHANGED <<storeGroup, cosGroup, embedGroup, ingestGroup>>

FlushPython ==
    /\ chunker.pc = "scan" /\ chunker.lang = "python" /\ chunker.i = Len(chunker.lines)
    /\ chunker' = flushPython(chunker)
    /\ UNCHANGED <<storeGroup, cosGroup, embedGroup, ingestGroup>>

PyInit ==
    /\ StoreIdle /\ CosIdle /\ EmbedIdle /\ IngestIdle
    /\ \E maxTokens \in TokenLimits : \E lines \in PyFiles :
           chunker = chunkCodeFile(lines, "py", maxTokens)

PyNext == StepPython \/ FlushPython

SpecPy == PyInit /\ [][PyNext]_vars

\* the current chunk was started by a def or class line without indentation
StartedByTopLevel(c) ==
    /\ c.currentChunk # <<>>
    /\ pyIndent(c.currentChunk[1]) = 0
    /\ \/ startsWith(c.currentChunk[1], kwDef \o <<" ">>)
       \/ startsWith(c.currentChunk[1], kwClass \o <<" ">>)

\* C23: Python chunking.  While the current chunk is one started by a
\* top-level def or class line, a blank or indented line (a body statement,
\* the def of a method) joins the chunk and neither ends it nor starts
\* another, and a non-blank line with indentation 0 ends it: the chunk
\* emitted holds the def or class line and every line after it up to, and
\* not including, that line.
C23_PythonBlocks ==
    [][(/\ chunker.pc = "scan" /\ chunker'.pc = "scan"
        /\ chunker.lang = "python"
        /\ StartedByTopLevel(chunker)) =>
           LET line == chunker.lines[chunker.i + 1]
           IN  IF IsBlank(line) \/ pyIndent(line) > 0
               THEN /\ chunker'.chunks = chunker.chunks
                    /\ chunker'.currentChunk = Append(chunker.currentChunk, line)
               ELSE /\ Len(chunker'.chunks) > Len(chunker.chunks)
                    /\ chunker'.chunks[Len(chunker.chunks) + 1].body = chunker.currentChunk
      ]_vars

(***************************************************************************)
(* The chunkers that track braces (SpecBraces): a file of a few lines of   *)
(* a declaration, a nested block, a closing brace and a statement, in      *)
(* JavaScript, Java, Go, C and Rust.                                        *)
(***************************************************************************)
brOpen == <<"i", "f", " ", "x", " ", "{">>
brClose == <<"}">>
brStmt == <<"x", " ", "y">>
brJs == <<"f", "u", "n", "c", "t", "i", "o", "n", " ", "f", "(", ")", " ", "{">>
brJavaClass == <<"c", "l", "a", "s", "s", " ", "C", " ", "{">>
brJavaMethod == <<"v", "o", "i", "d", " ", "m", "(", ")", " ", "{">>
brGo == <<"f", "u", "n", "c", " ", "f", "(", ")", " ", "{">>
brC == <<"i", "n", "t", " ", "f", "(", ")", " ", "{">>
brCType == <<"t", "y", "p", "e", "d", "e", "f", " ", "s", "t", "r", "u", "c", "t", " ", "S", " ", "{">>
brRust == <<"f", "n", " ", "f", "(", ")", " ", "{">>

\* the declaration lines of the files of an extension
BraceDeclarations(extension) ==
    CASE extension = "js" -> {brJs}
      [] extension = "java" -> {brJavaClass, brJavaMethod}
      [] extension = "go" -> {brGo}
      [] extension = "c" -> {brC, brCType}
      [] OTHER -> {brRust}

BraceExtensions == {"js", "java", "go", "c", "rs"}

BraceFiles(extension) ==
    UNION {[1..n -> BraceDeclarations(extension) \cup {brOpen, brClose, brStmt}] :
               n \in 1..MaxLines}

\* one iteration of the loop of the chunker of the file's language
StepBraces ==
    /\ chunker.pc = "scan" /\ chunker.i < Len(chunker.lines)
    /\ chunker' = CASE chunker.lang = "javascript" -> stepJSTS(chunker)
                    [] chunker.lang = "java" -> stepJava(chunker)
                    [] OTHER -> stepBraces(chunker)
    /\ UNCHANGED <<storeGroup, cosIn, cosOut, embedRun, hfLog, req, chat>>

\* the code after the loop
FlushBraces ==
    /\ chunker.pc = "scan" /\ chunker.i = Len(chunker.lines)
    /\ chunker' = CASE chunker.lang = "javascript" -> flushJSTS(chunker)
                    [] chunker.lang = "java" -> flushJava(chunker)
                    [] OTHER -> flushBraces(chunker)
    /\ UNCHANGED <<storeGroup, cosIn, cosOut, embedRun, hfLog, req, chat>>

BracesInit ==
    /\ StoreIdle /\ CosIdle /\ EmbedIdle /\ IngestIdle
    /\ \E extension \in BraceExtensions, maxTokens \in TokenLimits :
           \E lines \in BraceFiles(extension) :
               chunker = chunkCodeFile(lines, extension, maxTokens)

BracesNext == StepBraces \/ FlushBraces

SpecBraces == BracesInit /\ [][BracesNext]_vars

\* the depths at which the chunker of a language closes a chunk
SafeDepths(lang) == IF lang = "java" THEN {0, 1} ELSE {0}

\* C25: in the JS/TS, Go, C/C++ and Rust chunkers an iteration of the loop
\* closes a chunk only if the tracked brace depth is 0 before the line (a new
\* declaration) or after it (a closing brace, a size overflow), in the Java
\* chunker 0 or 1; while the depth stays outside these the line joins the
\* current chunk, however many tokens it holds.
C25_SafeSplitPoints ==
    [][ chunker.pc = "scan" /\ chunker'.pc = "scan" /\ chunker'.i = chunker.i + 1
        => /\ (chunker'.chunks # chunker.chunks)
                  => (\/ chunker.blockDepth \in SafeDepths(chunker.lang)
                      \/ chunker'.blockDepth \in SafeDepths(chunker.lang))
           /\ (/\ chunker.blockDepth \notin SafeDepths(chunker.lang)
               /\ chunker'.blockDepth \notin SafeDepths(chunker.lang))
                  => (/\ chunker'.chunks = chunker.chunks
                      /\ chunker'.currentChunk
                             = Append(chunker.currentChunk, chunker.lines[chunker.i + 1]))
      ]_vars

\* a declaration whose braces are open holds more tokens than maxTokens and
\* is not closed
C25_Witness ==
    /\ chunker.pc = "scan"
    /\ chunker.lang \in {"go", "c", "rust", "javascript"}
    /\ chunker.blockDepth = 2
    /\ chunker.chunks = <<>>
    /\ Len(chunker.currentChunk) >= 3
    /\ estimateTokens(Text(chunker.currentChunk)) > chunker.maxTokens

(***************************************************************************)
(* Runs one after the other on files of about BATCH_SIZE chunks            *)
(* (SpecIds): the insert of a run takes more than one batch.               *)
(***************************************************************************)
\* the chunks of a file: from one short of a batch to MaxOver more than one
BigFetches ==
    {[content |-> FALSE, chunks |-> 0, threw |-> FALSE]}
        \cup {[content |-> TRUE, chunks |-> c, threw |-> FALSE] :
                  c \in (BATCH_SIZE - 1)..(BATCH_SIZE + MaxOver)}

\* the embedding service fails on the first chunk of a batch or on none
BigEmbedSettle(r, outcome) ==
    /\ outcome.ok \/ req[r].embedRun.i = 0
    /\ EmbedSettle(r, outcome)

IdsNext ==
    \E r \in Runs :
        \/ \E url \in ServeUrls : ServeStart(r, url)
        \/ \E ok \in BOOLEAN : RepoInfoSettle(r, ok)
        \/ \E n \in 0..1 : ListingSettle(r, Listing(TRUE, FALSE, n))
        \/ \E outcome \in BigFetches : FetchSettle(r, outcome)
        \/ \E outcome \in IngestOutcomes : BigEmbedSettle(r, outcome)
        \/ DelaySettle(r)

SpecIds == SeqInit /\ [][IdsNext]_vars

\* C27: after any sequence of runs one after the other (each purges, then
\* inserts), the ids of the records of every collection are chunk_0 ..
\* chunk_(n-1) in insertion order, n the number of records: pairwise
\* distinct, and continued from one insert batch of BATCH_SIZE to the next.
C27_IdsInOrder ==
    \A name \in Names :
        LET data == vectorStore[name].data
        IN  /\ \A k \in DOMAIN data : data[k].id = k - 1
            /\ \A k \in DOMAIN data, l \in DOMAIN data : data[k].id = data[l].id => k = l

\* a collection of more records than a batch, left by the second of two runs
C27_Witness ==
    /\ req[1].pc = "done" /\ req[2].pc = "done"
    /\ \E name \in Names :
           /\ Len(vectorStore[name].data) > BATCH_SIZE
           /\ vectorStore[name].data[1].document[1] = 2

(***************************************************************************)
(* One request whose external calls all settle (SpecFair): every GitHub    *)
(* call, embedding call and timer the request waits for returns or throws  *)
(* in the end.                                                             *)
(***************************************************************************)
\* the call the request is suspended at settles
Settle ==
    \/ \E ok \in BOOLEAN : RepoInfoSettle(1, ok)
    \/ \E outcome \in ListingOutcomes \cup PartialListings \cup LongListings :
           ListingSettle(1, outcome)
    \/ \E outcome \in FetchOutcomes : RunFetchSettle(1, outcome)
    \/ \E outcome \in IngestOutcomes : EmbedSettle(1, outcome)
    \/ DelaySettle(1)

SpecFair == SpecRun /\ WF_vars(Settle)

\* C28: termination.  Provided every external call settles, a request that
\* has arrived sends its response in the end; it has sent no response until
\* it ends and exactly one once it has ended, never two.
C28_Termination ==
    /\ (req[1].pc # "idle") ~> (req[1].pc = "done" /\ Len(req[1].res) = 1)
    /\ [](Len(req[1].res) = IF req[1].pc = "done" THEN 1 ELSE 0)

\* the request has ended in success after embedding calls of two windows of
\* files
C28_Witness ==
    /\ req[1].pc = "done"
    /\ Len(req[1].res) = 1
    /\ req[1].res[1].status = 200
    /\ req[1].res[1].body.processedFiles > MAX_FILES_PER_BATCH
    /\ Len(req[1].allChunks) > 1

(***************************************************************************)
(* Runs one after the other, with the log of the embedding service         *)
(* (SpecCount): every embedding call made since the latest request        *)
(* arrived is recorded with its outcome.                                   *)
(***************************************************************************)
\* a request arrives when none is in progress; the log is read from here on
CountStart(r, url) ==
    /\ \A o \in Runs : req[o].pc \in {"idle", "done"}
    /\ \A o \in Runs : o < r => req[o].pc = "done"
    /\ req[r].pc = "idle"
    /\ req' = [req EXCEPT ![r] = start(req[r], "POST", url)]
    /\ hfLog' = <<>>
    /\ UNCHANGED <<storeGroup, chat, cosGroup, embedRun, chunkGroup>>

\* the embedding call of run r settles and the service has it in its log
LoggedEmbedSettle(r, outcome) ==
    /\ req[r].pc = "embed"
    /\ LET w == afterEmbed(vectorStore, [req[r] EXCEPT !.embedRun = settleCall(@, outcome)])
       IN  /\ vectorStore' = w.vs
           /\ req' = [req EXCEPT ![r] = w.q]
    /\ hfLog' = Append(hfLog, [chunk |-> req[r].embedRun.chunks[req[r].embedRun.i + 1],
                               ok |-> outcome.ok, embedding |-> outcome.embedding])
    /\ UNCHANGED <<lastCall, chroma, chat, cosGroup, embedRun, chunkGroup>>

CountNext ==
    \E r \in Runs :
        \/ \E url \in ServeUrls : CountStart(r, url)
        \/ \E ok \in BOOLEAN : RepoInfoSettle(r, ok)
        \/ \E outcome \in ListingOutcomes : ListingSettle(r, outcome)
        \/ \E outcome \in FetchOutcomes : FetchSettle(r, outcome)
        \/ \E outcome \in IngestOutcomes : LoggedEmbedSettle(r, outcome)
        \/ DelaySettle(r)

SpecCount == SeqInit /\ [][CountNext]_vars

\* the embedding calls of run r that the service answered, and all of them
SucceededOf(log, r) == {n \in DOMAIN log : log[n].chunk.content[1] = r /\ log[n].ok}
CalledOf(log, r) == {n \in DOMAIN log : log[n].chunk.content[1] = r}

\* C29: when a run, none other being in progress, responds with success,
\* the processedChunks it reports is the number of records of the repoId's
\* collection at that moment, is at least 1, and is the number of its
\* chunks whose embedding call succeeded.
C29_ProcessedChunks ==
    [][\A r \in Runs :
           (req[r].pc # "done" /\ req'[r].pc = "done" /\ req'[r].res[1].status = 200)
               => LET n == req'[r].res[1].body.processedChunks
                  IN  /\ n = Len(vectorStore'[collectionName(req'[r].repoId)].data)
                      /\ n >= 1
                      /\ n = Cardinality(SucceededOf(hfLog', r))
      ]_vars

\* the second run has responded with success and reports fewer chunks than
\* the chunker produced: one of its embedding calls failed
C29_Witness ==
    /\ req[1].pc = "done" /\ req[2].pc = "done"
    /\ req[2].res[1].status = 200
    /\ req[2].res[1].body.processedChunks < Cardinality(CalledOf(hfLog, 2))
    /\ req[2].res[1].body.processedChunks
           = Len(vectorStore[collectionName(req[2].repoId)].data)

====
